---- MODULE Spec2Model ----
(***************************************************************************)
(* Model of the id8 backend: the collaborative idea document (ownership,   *)
(* collaborators, change proposals, comments), the deep-dive version       *)
(* history, and the Groq LLM client with its retry loop.                   *)
(*                                                                         *)
(* The persistent store is modelled by its committed state: every action   *)
(* is one request (or one commit of a request that commits twice).         *)
(***************************************************************************)
EXTENDS Integers, Sequences, FiniteSets, TLC

VARIABLES
    ideas,          \* table ideas: id -> [user_id, title, status]
    collaborators,  \* table idea_collaborators: set of [idea_id, user_id, role]
    proposals,      \* table idea_change_proposals: id -> [idea_id, proposer_id, changes, status]
    comments,       \* table comments: id -> [idea_id, user_id, parent_comment_id]
    approving,      \* approve requests between their two commits: set of proposal ids
    versions,       \* table deep_dive_versions in insertion order
    deep_dive,      \* column ideas.deep_dive: idea id -> sections, absent while NULL
    sessions,       \* the db session of each request between its read and its commit
    resp,           \* outcome of the last request: [op, outcome]
    groq_key_counter, \* llm._groq_key_counter
    key_log,        \* the index in GROQ_API_KEYS of every key handed out, in lock order
    calls,          \* call_groq invocations: id -> [pc, attempt, posts, last]
    dd_parse,       \* the last parse_deep_dive_response call: [response, result]
    idea_parse,     \* the last parse_idea_response call: [response, result]
    lens_parse,     \* the last parse_lens_insight_response call: [response, result]
    version_log,    \* every row ever inserted into deep_dive_versions, in insertion order
    artifacts,      \* tables case_studies, market_snapshots, lens_insights, investor_decks
    generations,    \* LLM generations started by the advanced-feature requests
    users,          \* table users: id -> [team_id, account_type]
    teams,          \* table teams: id -> [owner_id]
    invites         \* table invites: id -> [team_id, inviter_id, accepted, revoked, expired]

\* the parsers of llm.py
parsers == <<dd_parse, idea_parse, lens_parse>>

\* the key rotation of llm.py
groq_keys == <<groq_key_counter, key_log>>

\* the state of llm.py
llm == <<groq_keys, calls, parsers>>

\* the tables of teams and invites
accounts == <<users, teams, invites>>

\* the tables of the advanced features
advanced == <<artifacts, generations>>

\* what the requests on ideas leave alone
platform == <<version_log, advanced, accounts>>

vars == <<ideas, collaborators, proposals, comments, approving, versions, deep_dive, sessions,
          resp, llm, platform>>

-----------------------------------------------------------------------------
(* Values *)

None == "None"

Users == {"u1", "u2", "u3"}

\* primary keys are fresh uuids; the model hands the ids out in this order
IdeaOrder == <<"i1", "i2">>
ProposalOrder == <<"p1">>
CommentOrder == <<"c1", "c2", "c3">>

Range(s) == { s[k] : k \in DOMAIN s }
IdeaIds == Range(IdeaOrder)
ProposalIds == Range(ProposalOrder)
CommentIds == Range(CommentOrder)

Roles == {"editor", "viewer"}

\* inputs the requests are drawn from
TitleInputs == {"", "A", "B"}
StatusInputs == {"suggested", "closed"}

\* proposal.changes: a field -> value mapping (JSONB, any field name)
ChangeInputs ==
    { [f \in {"title"} |-> "B"],
      [f \in {"title"} |-> ""],
      [f \in {"status"} |-> "closed"] }

\* upper bound on the rows of idea_collaborators
MaxCollaborators == 1

\* call_groq invocations that may be in progress together
CallIds == {"g1", "g2"}

\* requests that may be in progress together
RequestIds == {"r1", "r2"}

\* a request that has not read anything yet
NoSession ==
    [pc |-> "idle", op |-> "none", target |-> "none", idea_id |-> "none",
     loaded |-> << >>, writes |-> << >>]

\* an invocation before it is made
IdleCall == [pc |-> "idle", attempt |-> 0, posts |-> 0, last |-> "none"]

Rsp(op, outcome) == [op |-> op, outcome |-> outcome]

-----------------------------------------------------------------------------
(* Helpers *)

HasFreeId(order, used) == \E k \in DOMAIN order : order[k] \notin used

\* gen_uuid: the next unused id
FreeId(order, used) ==
    order[CHOOSE k \in DOMAIN order :
            /\ order[k] \notin used
            /\ \A j \in DOMAIN order : order[j] \notin used => k <= j]

IsOwner_Any(idea, user) == TRUE

\* idea.user_id != current_user.id  => 403
IsOwner(idea, user) == ideas[idea].user_id = user

\* db.query(IdeaCollaborator).filter(idea_id, user_id): the matching rows
CollaboratorRows(idea, user) ==
    { c \in collaborators : c.idea_id = idea /\ c.user_id = user }

RoleAllowed_Any(role, allowed) == TRUE

\* collaborator.role in allowed_roles
RoleAllowed(role, allowed) == role \in allowed

\* .first() of an unordered query: any of the matching rows
\* get_idea_and_check_collaboration_permission, for an existing idea
CollaborationPermitted(idea, user, allowed) ==
    \/ IsOwner(idea, user)
    \/ /\ ~IsOwner(idea, user)
       /\ \E c \in CollaboratorRows(idea, user) : RoleAllowed(c.role, allowed)

\* the complement outcome of the same check (403)
CollaborationRefused(idea, user, allowed) ==
    /\ ~IsOwner(idea, user)
    /\ \/ CollaboratorRows(idea, user) = {}
       \/ \E c \in CollaboratorRows(idea, user) : ~RoleAllowed(c.role, allowed)

\* for field, value in changes.items(): setattr(idea, field, value)
ApplyChanges(rec, changes) ==
    [f \in DOMAIN rec |-> IF f \in DOMAIN changes THEN changes[f] ELSE rec[f]]

-----------------------------------------------------------------------------
(* Python values and texts *)

\* a Python value (the result of json.loads, or a value the parsers build):
\* t the type, s the lines of a str, members of a dict, items of a list
PyVal(t, s, members, items) == [t |-> t, s |-> s, members |-> members, items |-> items]

\* a str is the sequence of its lines (joined by "\n"); "" is one empty line
Str(lines) == PyVal("str", lines, << >>, << >>)
EmptyStr == Str(<<"">>)
IntVal == PyVal("int", <<"7">>, << >>, << >>)
BoolVal == PyVal("bool", <<"true">>, << >>, << >>)
NoneVal == PyVal("none", <<"null">>, << >>, << >>)
ListVal(items) == PyVal("list", <<"[...]">>, << >>, items)
DictVal(members) == PyVal("dict", <<"{...}">>, members, << >>)

\* what json.loads raises on: the text is not JSON
NotJson == PyVal("invalid", << >>, << >>, << >>)

\* dict.get(key, default)
Get(d, key, default) == IF key \in DOMAIN d.members THEN d.members[key] ELSE default

\* str(value): a str is itself, any other value gives its repr
PyStr(v) == IF v.t = "str" THEN v ELSE Str(v.s)

\* json.dumps(value, indent=2): one line per member between the braces
Dumps(v) ==
    IF DOMAIN v.members = {} THEN Str(<<"{}">>)
    ELSE Str(<<"{">> \o [k \in 1..Cardinality(DOMAIN v.members) |-> "  member"] \o <<"}">>)

\* the lines of a text, stripped, that no text line of the model is
NoMatch == "NoMatch"

\* header_patterns of parse_by_headers on a stripped line: group(1).strip()
HeaderTitle(line) ==
    CASE line = "# Market" -> "Market"
      [] line = "1. Product" -> "1. Product"
      [] OTHER -> NoMatch

\* r'\d+\.\s*' at the start of a line: the rest of the line
NumberedRest(line) == IF line = "1. Product" THEN "Product" ELSE NoMatch

\* r'[-*•]\s*' at the start of a line: the rest of the line
BulletRest(line) == IF line = "- point" THEN "point" ELSE NoMatch

\* text.strip() on lines: the leading and trailing blank lines go
RECURSIVE StripLeading(_)
StripLeading(lines) ==
    IF lines = << >> THEN << >>
    ELSE IF lines[1] = "" THEN StripLeading(Tail(lines))
    ELSE lines

RECURSIVE StripTrailing(_)
StripTrailing(lines) ==
    IF lines = << >> THEN << >>
    ELSE IF lines[Len(lines)] = "" THEN StripTrailing(SubSeq(lines, 1, Len(lines) - 1))
    ELSE lines

\* << >> when nothing but whitespace is left
StripLines(lines) == StripTrailing(StripLeading(lines))

\* the rest of a line that starts with the marker of the kind
MarkerRest(kind, line) ==
    IF kind = "numbered" THEN NumberedRest(line) ELSE BulletRest(line)

\* re.split(r'\n\s*<marker>\s*', text): a line after the first that starts
\* with the marker starts a new piece, which begins with the rest of that line
RECURSIVE SplitLines(_, _, _, _, _)
SplitLines(lines, k, kind, piece, pieces) ==
    IF k > Len(lines) THEN Append(pieces, piece)
    ELSE IF k > 1 /\ MarkerRest(kind, lines[k]) # NoMatch
    THEN SplitLines(lines, k + 1, kind, <<MarkerRest(kind, lines[k])>>, Append(pieces, piece))
    ELSE SplitLines(lines, k + 1, kind, Append(piece, lines[k]), pieces)

Section(title, content) == [title |-> title, content |-> content]

-----------------------------------------------------------------------------
(* parse_deep_dive_response *)

key_map ==
    << <<"Product", "Product">>,
       <<"Timing", "Timing / Why Now">>,
       <<"Market", "Market Opportunity">>,
       <<"Moat", "Strategic Moat / IP / Differentiator">>,
       <<"Funding", "Business & Funding Snapshot">>,
       <<"Signal Score", "Signal Score">>,
       <<"GoNoGo", "Go / No-Go">>,
       <<"Summary", "Summary">> >>

\* is None -> ""
NoneToEmpty(content) == IF content.t = "none" THEN EmptyStr ELSE content

\* key == "Signal Score" and isinstance(content, dict) -> json.dumps
DumpSignalScore(key, content) ==
    IF key = "Signal Score" /\ content.t = "dict" THEN Dumps(content) ELSE content

\* the flat structure: one section per entry of key_map, in its order
flat_sections(data) ==
    [k \in 1..Len(key_map) |->
        Section(Str(<<key_map[k][2]>>),
                NoneToEmpty(DumpSignalScore(key_map[k][1], Get(data, key_map[k][1], EmptyStr))))]

list_error_sections ==
    << Section(Str(<<"Error Generating Deep Dive">>),
               Str(<<"The AI returned a list of ideas instead of a deep dive analysis. Please try again.">>)) >>

SectionN(i) == Str(<<"Section " \o ToString(i)>>)

\* the legacy structure: data["sections"], element by element
legacy_sections(data) ==
    LET elems == data.members["sections"].items IN
    [i \in 1..Len(elems) |->
        IF elems[i].t = "dict"
        THEN Section(Get(elems[i], "title", SectionN(i)),
                     Get(elems[i], "content", PyStr(elems[i])))
        ELSE Section(SectionN(i), PyStr(elems[i]))]

IsLegacy(data) ==
    /\ data.t = "dict"
    /\ "sections" \in DOMAIN data.members
    /\ data.members["sections"].t = "list"

\* the section saved when a header or the end of the text is reached
SaveSection(current_section, current_content, sections) ==
    IF current_section # NoMatch /\ current_content # << >>
    THEN Append(sections, Section(Str(<<current_section>>), Str(current_content)))
    ELSE sections

RECURSIVE headers_scan(_, _, _, _, _)
headers_scan(lines, k, current_section, current_content, sections) ==
    IF k > Len(lines) THEN SaveSection(current_section, current_content, sections)
    ELSE IF lines[k] = ""
    THEN headers_scan(lines, k + 1, current_section, current_content, sections)
    ELSE IF HeaderTitle(lines[k]) # NoMatch
    THEN headers_scan(lines, k + 1, HeaderTitle(lines[k]), << >>,
                      SaveSection(current_section, current_content, sections))
    ELSE headers_scan(lines, k + 1, current_section,
                      IF current_section # NoMatch
                      THEN Append(current_content, lines[k]) ELSE current_content,
                      sections)

parse_by_headers(text) == headers_scan(text, 1, NoMatch, << >>, << >>)

\* the section of the i-th piece after a numbered marker
NumberedSection(i, piece) ==
    LET lines == StripLines(piece)
        content == StripLines(Tail(lines)) IN
    IF content = << >>
    THEN Section(SectionN(i), Str(<<lines[1]>>))
    ELSE Section(Str(<<lines[1]>>), Str(content))

\* the section of the i-th piece after a bullet
BulletSection(i, piece) == Section(SectionN(i), Str(StripLines(piece)))

\* pieces[1:], those that are not blank, numbered from 1 by position
RECURSIVE PieceSections(_, _, _, _)
PieceSections(pieces, i, kind, sections) ==
    IF i + 1 > Len(pieces) THEN sections
    ELSE PieceSections(pieces, i + 1, kind,
            IF StripLines(pieces[i + 1]) = << >> THEN sections
            ELSE Append(sections, IF kind = "numbered"
                                  THEN NumberedSection(i, pieces[i + 1])
                                  ELSE BulletSection(i, pieces[i + 1])))

parse_by_numbering(text) ==
    LET numbered == PieceSections(SplitLines(text, 1, "numbered", << >>, << >>), 1,
                                  "numbered", << >>) IN
    IF numbered # << >> THEN numbered
    ELSE PieceSections(SplitLines(text, 1, "bullet", << >>, << >>), 1, "bullet", << >>)

\* the line of three backquotes that opens and closes a code block
Fence == "[fence]"

\* the response between two fence lines
raw_sections(text) ==
    << Section(Str(<<"Raw Analysis">>), Str(<<Fence>> \o text \o <<Fence>>)) >>

Parsed(tier, sections) == [tier |-> tier, sections |-> sections]

\* a response is its text and what json.loads makes of the text
Response(text, json) == [text |-> text, json |-> json]

\* the text tiers, tried when neither JSON tier returned
text_tiers(text) ==
    IF parse_by_headers(text) # << >> THEN Parsed("headers", parse_by_headers(text))
    ELSE IF parse_by_numbering(text) # << >> THEN Parsed("numbering", parse_by_numbering(text))
    ELSE Parsed("raw", raw_sections(text))

flat_tier_Never(data) == FALSE

\* isinstance(data, dict) in the first try block
flat_tier(data) == data.t = "dict"

list_tier_Never(data) == FALSE

\* isinstance(data, list) in the first try block
list_tier(data) == data.t = "list"

parse_deep_dive_response(response) ==
    IF response.text = << >> \/ response.text = <<"">> THEN Parsed("empty", << >>)
    ELSE IF list_tier(response.json) THEN Parsed("list", list_error_sections)
    ELSE IF flat_tier(response.json) THEN Parsed("flat", flat_sections(response.json))
    ELSE IF IsLegacy(response.json) THEN Parsed("legacy", legacy_sections(response.json))
    ELSE text_tiers(response.text)

-----------------------------------------------------------------------------
(* The responses parse_deep_dive_response is applied to *)

\* upper bound on the lines of a response that is not JSON
MaxLines == 3

\* the stripped lines a free text is made of
TextLines == {"", "Some prose.", "# Market", "1. Product", "- point"}

Texts == UNION { [1..n -> TextLines] : n \in 1..MaxLines }

\* the JSON values of the canonical keys
LeafValues ==
    { Str(<<"x">>), IntVal, BoolVal, NoneVal, ListVal(<< >>), DictVal("score" :> IntVal) }

\* the JSON values of a "sections" member
SectionLists ==
    { ListVal(<< >>),
      ListVal(<< DictVal(("title" :> Str(<<"a">>)) @@ ("content" :> Str(<<"b">>))) >>),
      ListVal(<< DictVal("content" :> Str(<<"b">>)), Str(<<"loose">>) >>) }

ObjectKeys == {"Product", "Timing", "Signal Score", "sections"}

ValuesFor(key) ==
    IF key = "sections" THEN SectionLists
    ELSE IF key = "Timing" THEN {Str(<<"y">>)}
    ELSE LeafValues

MemberValues == UNION { ValuesFor(k) : k \in ObjectKeys }

JsonObjects ==
    UNION { { DictVal(m) : m \in { f \in [K -> MemberValues] :
                                     \A k \in K : f[k] \in ValuesFor(k) } } :
            K \in SUBSET ObjectKeys }

JsonArrays ==
    { ListVal(<< >>), ListVal(<< DictVal("title" :> Str(<<"a">>)) >>), ListVal(<<IntVal>>) }

JsonScalars == { Str(<<"x">>), IntVal, BoolVal, NoneVal }

\* the text json.loads read the value from, abridged to one line
JsonText(v) == IF v.t = "str" THEN <<"\"" \o v.s[1] \o "\"">> ELSE v.s

\* response: Optional[str]; None is the text of no line
DeepDiveResponses ==
    { Response(JsonText(v), v) : v \in JsonObjects \cup JsonArrays \cup JsonScalars }
    \cup { Response(t, NotJson) : t \in Texts \cup {<< >>} }

\* before any call of the parser
NoParse == [called |-> FALSE, response |-> Response(<< >>, NotJson), result |-> Parsed("none", << >>)]

\* one call of parse_deep_dive_response
parse_deep_dive(response) ==
    /\ ~dd_parse.called
    /\ dd_parse' = [called |-> TRUE, response |-> response,
                    result |-> parse_deep_dive_response(response)]
    /\ UNCHANGED <<ideas, collaborators, proposals, comments, approving, versions, resp,
                   deep_dive, sessions, groq_keys, calls, idea_parse, lens_parse, platform>>

-----------------------------------------------------------------------------
(* parse_idea_response *)

\* an idea record: a mapping of field names to values; a str field other
\* than the title is the sequence of its lines, "" the empty sequence
Member(key, value, present) == IF present THEN key :> value ELSE << >>

\* the idea dict parse_single_idea starts from
IdeaDefaults ==
    [title |-> "", hook |-> << >>, value |-> << >>, score |-> 5, mvp_effort |-> 5]

\* idea.update(parsed_json)
Update(idea, parsed) ==
    [f \in DOMAIN idea \cup DOMAIN parsed |-> IF f \in DOMAIN parsed THEN parsed[f] ELSE idea[f]]

\* what json.loads gives: kind "array" with its items, "object" with the
\* one dict as its item, "invalid" when it raises; "nomatch" for a regex
\* that did not match
Json(kind, items) == [kind |-> kind, items |-> items]

\* a response: its lines, json.loads of the whole text, and json.loads of
\* the first r'\[\s*{.*?}\s*\]' match in it
IdeaResponse(text, whole, match) == [text |-> text, whole |-> whole, match |-> match]

\* extract_json_array: the parsed match if the regex matches, else the parsed
\* text; None (kind "invalid") when json.loads raises
extract_json_array(response) ==
    IF response.match.kind # "nomatch" THEN response.match ELSE response.whole

\* line.lower().startswith(('hook:', 'value:', ..., 'score:', 'mvp'))
IsFieldLine(line) ==
    line \in {"Hook:", "Value:", "Score: 9/10", "Score: 7/10",
              "MVP effort: 3/10", "MVP effort: 5/10"}

\* line.startswith(('•', '-', '*', '1.', '2.', '3.'))
IsBulletLine(line) == line = "- x."

\* the first of lines[:3] that looks like a title
RECURSIVE first_title(_, _)
first_title(lines, k) ==
    IF k > Len(lines) \/ k > 3 THEN ""
    ELSE IF lines[k] = "" \/ IsFieldLine(lines[k]) THEN first_title(lines, k + 1)
    ELSE IF Len(lines[k]) > 3 /\ Len(lines[k]) < 100 /\ ~IsBulletLine(lines[k]) THEN lines[k]
    ELSE first_title(lines, k + 1)

\* the first line of reasonable title length that is no field line
RECURSIVE meaningful_title(_, _)
meaningful_title(lines, k) ==
    IF k > Len(lines) THEN ""
    ELSE IF lines[k] # "" /\ ~IsFieldLine(lines[k])
            /\ Len(lines[k]) > 10 /\ Len(lines[k]) < 150 THEN lines[k]
    ELSE meaningful_title(lines, k + 1)

\* the field a header line opens
FieldOf(line) ==
    CASE line = "Hook:" -> "hook"
      [] line = "Value:" -> "value"
      [] OTHER -> NoMatch

\* re.search(r'(\d+)/10', line) on a score line
ScoreOf(line) ==
    CASE line = "Score: 9/10" -> 9
      [] line = "Score: 7/10" -> 7
      [] OTHER -> -1

\* re.search(r'(\d+)/10', line) on an MVP line
EffortOf(line) ==
    CASE line = "MVP effort: 3/10" -> 3
      [] line = "MVP effort: 5/10" -> 5
      [] OTHER -> -1

\* if current_field and current_content: idea[current_field] = joined content
SaveField(idea, current_field, current_content) ==
    IF current_field # NoMatch /\ current_content # << >>
    THEN [idea EXCEPT ![current_field] = current_content]
    ELSE idea

\* the loop over the lines that fills the structured fields
RECURSIVE fields_scan(_, _, _, _, _)
fields_scan(lines, k, idea, current_field, current_content) ==
    IF k > Len(lines) THEN SaveField(idea, current_field, current_content)
    ELSE IF lines[k] = "" THEN fields_scan(lines, k + 1, idea, current_field, current_content)
    ELSE IF FieldOf(lines[k]) # NoMatch
    THEN fields_scan(lines, k + 1, SaveField(idea, current_field, current_content),
                     FieldOf(lines[k]), << >>)
    ELSE IF ScoreOf(lines[k]) # -1
    THEN fields_scan(lines, k + 1,
                     [SaveField(idea, current_field, current_content) EXCEPT
                         !.score = ScoreOf(lines[k])], NoMatch, << >>)
    ELSE IF EffortOf(lines[k]) # -1
    THEN fields_scan(lines, k + 1,
                     [SaveField(idea, current_field, current_content) EXCEPT
                         !.mvp_effort = EffortOf(lines[k])], NoMatch, << >>)
    ELSE fields_scan(lines, k + 1, idea, current_field,
                     IF current_field # NoMatch
                     THEN Append(current_content, lines[k]) ELSE current_content)

\* content.split('.')[0].strip() of the lines of a field
FirstSentence(content) ==
    CASE content[1] = "- x." -> "- x"
      [] content[1] = "Saves an hour a day. Every day." -> "Saves an hour a day"
      [] OTHER -> content[1]

\* the title taken from the hook, else from the value
fallback_title(idea) ==
    IF idea.hook # << >> THEN FirstSentence(idea.hook)
    ELSE IF idea.value # << >> THEN FirstSentence(idea.value)
    ELSE ""

\* the text part of parse_single_idea
text_idea(lines) ==
    LET t1 == first_title(lines, 1)
        t2 == IF t1 = "" THEN meaningful_title(lines, 1) ELSE t1
        scanned == fields_scan(lines, 1, [IdeaDefaults EXCEPT !.title = t2], NoMatch, << >>)
    IN  IF scanned.title = ""
        THEN [scanned EXCEPT !.title = fallback_title(scanned)]
        ELSE scanned

\* parsed_json.get("title") or parsed_json.get("hook")
HasTitleOrHook(d) ==
    \/ "title" \in DOMAIN d /\ d["title"] # ""
    \/ "hook" \in DOMAIN d /\ d["hook"] # << >>

\* parse_single_idea: the idea in a one-element list, the empty list for None
parse_single_idea(section) ==
    IF StripLines(section.text) = << >> THEN << >>
    ELSE IF section.whole.kind = "object" /\ HasTitleOrHook(section.whole.items[1])
    THEN << Update(IdeaDefaults, section.whole.items[1]) >>
    ELSE LET idea == text_idea(StripLines(section.text)) IN
         IF idea.title = "" THEN << >> ELSE <<idea>>

\* idea.get('score', 0) >= 8 and idea.get('mvp_effort', 10) <= 4
QualityFilter(idea) == idea.score >= 8 /\ idea.mvp_effort <= 4

\* re.split(r'\\*\\*Idea \\d+|^Idea \\d+|^\\d+\\. ', response): the pattern
\* asks for a literal backslash before d, which no response of the model
\* has, so the response is the one section
idea_sections(response) == <<response>>

parse_idea_response(response) ==
    IF response.text = << >> \/ response.text = <<"">> THEN << >>
    ELSE IF extract_json_array(response).kind = "array"
            /\ extract_json_array(response).items # << >>
    THEN extract_json_array(response).items
    ELSE LET idea == parse_single_idea(idea_sections(response)[1]) IN
         IF idea # << >> /\ QualityFilter(idea[1]) THEN idea ELSE << >>

-----------------------------------------------------------------------------
(* The responses parse_idea_response is applied to *)

\* upper bound on the lines of an idea response that is not JSON
MaxIdeaLines == 3

IdeaLines ==
    {"", "Smart Inbox", "Hook:", "Saves an hour a day. Every day.", "- x.",
     "Score: 9/10", "Score: 7/10", "MVP effort: 3/10", "MVP effort: 5/10"}

IdeaTexts == UNION { [1..n -> IdeaLines] : n \in 1..MaxIdeaLines }

\* a JSON object with the members chosen; None and -1 leave the member out
IdeaObject(title, hook, score, effort) ==
    Member("title", title, title # None) @@ Member("hook", <<"h">>, hook)
    @@ Member("score", score, score # -1) @@ Member("mvp_effort", effort, effort # -1)

IdeaObjects ==
    { IdeaObject(t, h, sc, e) :
        t \in {None, "", "T"}, h \in BOOLEAN, sc \in {-1, 7, 8}, e \in {-1, 4, 5} }

NoRegexMatch == Json("nomatch", << >>)
InvalidJson == Json("invalid", << >>)

IdeaResponses ==
    \* a JSON array of one object, as the whole text or after a line of prose
    { IdeaResponse(<<"[{...}]">>, Json("array", <<o>>), Json("array", <<o>>)) : o \in IdeaObjects }
    \cup { IdeaResponse(<<"Here are the ideas:", "[{...}]">>, InvalidJson, Json("array", <<o>>)) :
             o \in IdeaObjects }
    \* a single JSON object
    \cup { IdeaResponse(<<"{...}">>, Json("object", <<o>>), NoRegexMatch) : o \in IdeaObjects }
    \* the empty array, a bracketed text that is not JSON
    \cup { IdeaResponse(<<"[]">>, Json("array", << >>), NoRegexMatch),
           IdeaResponse(<<"[{broken}]">>, InvalidJson, InvalidJson) }
    \* free text and None
    \cup { IdeaResponse(t, InvalidJson, NoRegexMatch) : t \in IdeaTexts \cup {<< >>} }

\* before any call of the parser
NoIdeaParse ==
    [called |-> FALSE, response |-> IdeaResponse(<< >>, InvalidJson, NoRegexMatch), result |-> << >>]

\* one call of parse_idea_response
parse_ideas(response) ==
    /\ ~idea_parse.called
    /\ idea_parse' = [called |-> TRUE, response |-> response,
                      result |-> parse_idea_response(response)]
    /\ UNCHANGED <<ideas, collaborators, proposals, comments, approving, versions, resp,
                   deep_dive, sessions, groq_keys, calls, dd_parse, lens_parse, platform>>

-----------------------------------------------------------------------------
(* parse_lens_insight_response *)

\* the bullet character and the space that f"• {item}" puts before an item
BulletPrefix == "(bullet) "

\* f"• {item}": the bullet before the first line of str(item)
BulletItem(item) ==
    LET lines == PyStr(item).s IN <<BulletPrefix \o lines[1]>> \o Tail(lines)

\* '\n'.join([f"• {item}" for item in value]); the join of no item is ""
RECURSIVE JoinBullets(_, _, _)
JoinBullets(items, k, lines) ==
    IF k > Len(items) THEN (IF lines = << >> THEN EmptyStr ELSE Str(lines))
    ELSE JoinBullets(items, k + 1, lines \o BulletItem(items[k]))

IsListField_Never(key, value) == FALSE

\* key in ['opportunities', 'risks', 'recommendations'] and isinstance(value, list)
IsListField(key, value) ==
    key \in {"opportunities", "risks", "recommendations"} /\ value.t = "list"

\* processed_data: the items of the dict, the list fields joined
processed_data(data) ==
    DictVal([key \in DOMAIN data.members |->
                IF IsListField(key, data.members[key])
                THEN JoinBullets(data.members[key].items, 1, << >>)
                ELSE data.members[key]])

\* section["title"].lower().replace(" ", "_")
InsightKey(title) ==
    CASE title = "Market" -> "market"
      [] title = "1. Product" -> "1._product"
      [] OTHER -> title

\* insight[key] = section["content"], a later section of a key over an earlier
RECURSIVE insight_of(_, _, _)
insight_of(sections, k, insight) ==
    IF k > Len(sections) THEN DictVal(insight)
    ELSE LET key == InsightKey(sections[k].title.s[1]) IN
         insight_of(sections, k + 1,
                    [f \in DOMAIN insight \cup {key} |->
                        IF f = key THEN sections[k].content ELSE insight[f]])

\* a response: its lines, json.loads of the whole text, and json.loads of the
\* first match of r'\{[^{}]*(?:\{[^{}]*\}[^{}]*)*\}' in it
LensResponse(text, json, match) == [text |-> text, json |-> json, match |-> match]

\* re.search found no object in the text
NoObject == PyVal("nomatch", << >>, << >>, << >>)

LensParsed(tier, data) == [tier |-> tier, data |-> data]

\* the tiers after the whole-text JSON tier
lens_fallbacks(response) ==
    IF response.match.t = "dict"
    THEN LensParsed("embedded", processed_data(response.match))
    ELSE IF parse_by_headers(response.text) # << >>
    THEN LensParsed("headers", insight_of(parse_by_headers(response.text), 1, << >>))
    ELSE LensParsed("raw", DictVal("raw_analysis" :> Str(response.text)))

parse_lens_insight_response(response) ==
    IF response.text = << >> \/ response.text = <<"">> THEN LensParsed("empty", DictVal(<< >>))
    ELSE IF response.json.t = "dict" THEN LensParsed("object", processed_data(response.json))
    ELSE IF response.json.t = "list" /\ response.json.items # << >>
    THEN IF response.json.items[1].t = "dict"
         THEN LensParsed("array", processed_data(response.json.items[1]))
         ELSE LensParsed("first_item", response.json.items[1])
    ELSE lens_fallbacks(response)

-----------------------------------------------------------------------------
(* The responses parse_lens_insight_response is applied to *)

LensKeys == {"insights", "opportunities", "risks", "recommendations"}

\* the JSON values of a lens field: text, lists of none, one and two items,
\* a list with an item that is not a str, null
LensValues ==
    { Str(<<"s">>), ListVal(<< >>), ListVal(<<Str(<<"a">>)>>),
      ListVal(<<Str(<<"a">>), Str(<<"b">>)>>), ListVal(<<IntVal, Str(<<"a">>)>>), NoneVal }

LensValuesFor(key) ==
    IF key = "insights" THEN { Str(<<"s">>), ListVal(<<Str(<<"a">>)>>) } ELSE LensValues

LensObjects ==
    UNION { { DictVal(m) : m \in { f \in [K -> LensValues] :
                                     \A k \in K : f[k] \in LensValuesFor(k) } } :
            K \in SUBSET LensKeys }

LensResponses ==
    \* a JSON object as the whole text, as the first element of an array,
    \* and after a line of prose
    { LensResponse(<<"{...}">>, o, o) : o \in LensObjects }
    \cup { LensResponse(<<"[{...}]">>, ListVal(<<o>>), o) : o \in LensObjects }
    \cup { LensResponse(<<"Here is the insight:", "{...}">>, NotJson, o) : o \in LensObjects }
    \* arrays without an object first, scalars, braces around no JSON
    \cup { LensResponse(<<"[]">>, ListVal(<< >>), NoObject),
           LensResponse(<<"[7]">>, ListVal(<<IntVal>>), NoObject),
           LensResponse(<<"7">>, IntVal, NoObject),
           LensResponse(<<"{broken}">>, NotJson, NotJson) }
    \* free text and None
    \cup { LensResponse(t, NotJson, NoObject) : t \in Texts \cup {<< >>} }

\* before any call of the parser
NoLensParse ==
    [called |-> FALSE, response |-> LensResponse(<< >>, NotJson, NoObject),
     result |-> LensParsed("none", DictVal(<< >>))]

\* one call of parse_lens_insight_response
parse_lens_insight(response) ==
    /\ ~lens_parse.called
    /\ lens_parse' = [called |-> TRUE, response |-> response,
                      result |-> parse_lens_insight_response(response)]
    /\ UNCHANGED <<ideas, collaborators, proposals, comments, approving, versions, resp,
                   deep_dive, sessions, groq_keys, calls, dd_parse, idea_parse, platform>>

-----------------------------------------------------------------------------
(* Teams, invites and generated artifacts before any request *)

\* a user as registration leaves it: no team
\* models.py: tier defaults to 'premium', account_type to 'solo'
NoTeamUser == [team_id |-> None, account_type |-> "solo", tier |-> "premium"]

InitPlatform ==
    /\ version_log = << >>
    /\ artifacts = << >>
    /\ generations = 0
    /\ users = [u \in Users |-> NoTeamUser]
    /\ teams = << >>
    /\ invites = << >>

-----------------------------------------------------------------------------
Init ==
    /\ ideas = << >>
    /\ collaborators = {}
    /\ proposals = << >>
    /\ comments = << >>
    /\ approving = {}
    /\ versions = << >>
    /\ deep_dive = << >>
    /\ sessions = [r \in RequestIds |-> NoSession]
    /\ resp = Rsp("none", "none")
    /\ groq_key_counter = 0
    /\ key_log = << >>
    /\ calls = [c \in CallIds |-> IdleCall]
    /\ dd_parse = NoParse
    /\ idea_parse = NoIdeaParse
    /\ lens_parse = NoLensParse
    /\ InitPlatform

-----------------------------------------------------------------------------
(* Idea creation *)

NewIdea(user, title, status) == [user_id |-> user, title |-> title, status |-> status]

InsertIdea(rec) == ideas' = ideas @@ (FreeId(IdeaOrder, DOMAIN ideas) :> rec)

\* if not title: raise HTTPException(400, "Title is required")
TitleRequired(title) == title = ""

\* POST /ideas/
create_idea(u, title, status) ==
    /\ HasFreeId(IdeaOrder, DOMAIN ideas)
    /\ IF TitleRequired(title)
       THEN /\ resp' = Rsp("create_idea", "bad_request")
            /\ UNCHANGED ideas
       ELSE /\ InsertIdea(NewIdea(u, title, status))
            /\ resp' = Rsp("create_idea", "ok")
    /\ UNCHANGED <<collaborators, proposals, comments, approving, versions,
                   deep_dive, sessions, llm, platform>>

\* the titles generate_idea_pitches lets through: item.get("title") is truthy
PitchTitles == { t \in TitleInputs : t # "" }

\* scripts/fetch_and_generate_ideas.py: system ideas, user_id = None
generate_ideas_for_repos(title) ==
    /\ HasFreeId(IdeaOrder, DOMAIN ideas)
    /\ InsertIdea(NewIdea(None, title, "suggested"))
    /\ resp' = Rsp("generate_ideas_for_repos", "ok")
    /\ UNCHANGED <<collaborators, proposals, comments, approving, versions,
                   deep_dive, sessions, llm, platform>>

\* TIERS["premium"]["max_ideas"]; users are created with tier 'premium'
MaxIdeasPremium == 1000

\* TIERS["free"]["max_ideas"]
MaxIdeasFree == 10

\* get_tier_config: TIERS.get(tier, TIERS["free"])
get_tier_config(tier) ==
    IF tier = "premium"
    THEN [max_ideas |-> MaxIdeasPremium, deep_dive |-> TRUE]
    ELSE [max_ideas |-> MaxIdeasFree, deep_dive |-> FALSE]

UserIdeaCount(u) == Cardinality({ i \in DOMAIN ideas : ideas[i].user_id = u })

\* the loop of generate_ideas: one row, one commit per parsed idea
RECURSIVE InsertedIdeas(_, _, _)
InsertedIdeas(table, u, titles) ==
    IF titles = << >> THEN table
    ELSE InsertedIdeas(table @@ (FreeId(IdeaOrder, DOMAIN table)
                                     :> NewIdea(u, Head(titles), "suggested")),
                       u, Tail(titles))

\* if user_idea_count >= config["max_ideas"]: raise HTTPException(403)
LimitReached(count, config) == count >= config.max_ideas

\* POST /ideas/generate; titles: the parsed ideas without an 'error' key
generate_ideas(u, use_personalization, titles) ==
    /\ Cardinality(IdeaIds \ DOMAIN ideas) >= Len(titles)
    /\ LET config == get_tier_config(users[u].tier) IN
       IF LimitReached(UserIdeaCount(u), config)
       THEN /\ resp' = Rsp("generate_ideas", "forbidden")
            /\ UNCHANGED ideas
       ELSE IF ~config.deep_dive /\ use_personalization
       THEN /\ resp' = Rsp("generate_ideas", "forbidden")
            /\ UNCHANGED ideas
       ELSE IF titles = << >>
       THEN /\ resp' = Rsp("generate_ideas", "no_valid_ideas")
            /\ UNCHANGED ideas
       ELSE /\ ideas' = InsertedIdeas(ideas, u, titles)
            /\ resp' = Rsp("generate_ideas", "ok")
    /\ UNCHANGED <<collaborators, proposals, comments, approving, versions,
                   deep_dive, sessions, llm, platform>>

\* POST /ideas/validate; title = idea_data.get("title", ""), no check on it
validate_user_idea(u, title) ==
    /\ HasFreeId(IdeaOrder, DOMAIN ideas)
    /\ InsertIdea(NewIdea(u, title, "considering"))
    /\ resp' = Rsp("validate_user_idea", "ok")
    /\ UNCHANGED <<collaborators, proposals, comments, approving, versions,
                   deep_dive, sessions, llm, platform>>

-----------------------------------------------------------------------------
(* Direct edits *)

\* if idea.user_id and idea.user_id != current_user.id: 403
MayEdit(idea, user) == ideas[idea].user_id = None \/ ideas[idea].user_id = user

SetIfGiven(old, new) == IF new # None THEN new ELSE old

\* PUT /ideas/{idea_id}
update_idea(u, i, title, status) ==
    /\ IF i \notin DOMAIN ideas
       THEN /\ resp' = Rsp("update_idea", "not_found")
            /\ UNCHANGED ideas
       ELSE IF ~MayEdit(i, u)
       THEN /\ resp' = Rsp("update_idea", "forbidden")
            /\ UNCHANGED ideas
       ELSE /\ ideas' = [ideas EXCEPT ![i] =
                           [user_id |-> IF @.user_id = None THEN u ELSE @.user_id,
                            title   |-> SetIfGiven(@.title, title),
                            status  |-> SetIfGiven(@.status, status)]]
            /\ resp' = Rsp("update_idea", "ok")
    /\ UNCHANGED <<collaborators, proposals, comments, approving, versions,
                   deep_dive, sessions, llm, platform>>

\* crud.update_idea_status(db, idea_id, status): ValueError when the idea is absent
update_idea_status(i, status) == [ideas EXCEPT ![i].status = status]

\* POST /ideas/{idea_id}/status: the route takes no current user
update_status_api(u, i, status) ==
    /\ IF i \notin DOMAIN ideas
       THEN /\ resp' = Rsp("update_status_api", "not_found")
            /\ UNCHANGED ideas
       ELSE /\ ideas' = update_idea_status(i, status)
            /\ resp' = Rsp("update_status_api", "ok")
    /\ UNCHANGED <<collaborators, proposals, comments, approving, versions,
                   deep_dive, sessions, llm, platform>>

-----------------------------------------------------------------------------
(* Collaborators *)

\* get_idea_and_check_ownership: "ok", "not_found" or "forbidden"
OwnershipCheck(i, u) ==
    IF i \notin DOMAIN ideas THEN "not_found"
    ELSE IF ~IsOwner(i, u) THEN "forbidden"
    ELSE "ok"

\* crud.add_collaborator: inserts a row; nothing makes (idea, user) unique
add_collaborator(i, target, role) ==
    collaborators \cup {[idea_id |-> i, user_id |-> target, role |-> role]}

\* POST /collaboration/ideas/{idea_id}/collaborators
add_collaborator_to_idea(u, i, target, role) ==
    /\ Cardinality(collaborators) < MaxCollaborators
    /\ LET chk == OwnershipCheck(i, u) IN
       IF chk # "ok"
       THEN /\ resp' = Rsp("add_collaborator_to_idea", chk)
            /\ UNCHANGED collaborators
       ELSE /\ collaborators' = add_collaborator(i, target, role)
            /\ resp' = Rsp("add_collaborator_to_idea", "ok")
    /\ UNCHANGED <<ideas, proposals, comments, approving, versions, deep_dive, sessions, llm, platform>>

\* GET /collaboration/ideas/{idea_id}/collaborators
get_idea_collaborators(u, i) ==
    /\ resp' = Rsp("get_idea_collaborators", OwnershipCheck(i, u))
    /\ UNCHANGED <<ideas, collaborators, proposals, comments, approving, versions,
                   deep_dive, sessions, llm, platform>>

\* DELETE /collaboration/ideas/{idea_id}/collaborators/{user_id}
\* crud.remove_collaborator deletes the row found for (idea, user), falsy when none
remove_collaborator_from_idea(u, i, target) ==
    /\ LET chk == OwnershipCheck(i, u) IN
       IF chk # "ok"
       THEN /\ resp' = Rsp("remove_collaborator_from_idea", chk)
            /\ UNCHANGED collaborators
       ELSE IF CollaboratorRows(i, target) = {}
       THEN /\ resp' = Rsp("remove_collaborator_from_idea", "not_found")
            /\ UNCHANGED collaborators
       ELSE /\ \E c \in CollaboratorRows(i, target) : collaborators' = collaborators \ {c}
            /\ resp' = Rsp("remove_collaborator_from_idea", "ok")
    /\ UNCHANGED <<ideas, proposals, comments, approving, versions, deep_dive, sessions, llm, platform>>

-----------------------------------------------------------------------------
(* Change proposals *)

\* crud.create_change_proposal; status takes the column default 'pending'
create_change_proposal(i, proposer, changes) ==
    proposals @@ (FreeId(ProposalOrder, DOMAIN proposals) :>
        [idea_id |-> i, proposer_id |-> proposer, changes |-> changes,
         status |-> "pending"])

\* a submit that writes the changes to the idea at once
submit_change_proposal_Applying(u, i, changes) ==
    /\ HasFreeId(ProposalOrder, DOMAIN proposals)
    /\ i \in DOMAIN ideas
    /\ CollaborationPermitted(i, u, {"editor"})
    /\ proposals' = create_change_proposal(i, u, changes)
    /\ ideas' = [ideas EXCEPT ![i] = ApplyChanges(@, changes)]
    /\ resp' = Rsp("submit_change_proposal", "ok")
    /\ UNCHANGED <<collaborators, comments, approving, versions, deep_dive, sessions, llm, platform>>

\* POST /collaboration/ideas/{idea_id}/proposals
submit_change_proposal(u, i, changes) ==
    /\ HasFreeId(ProposalOrder, DOMAIN proposals)
    /\ IF i \notin DOMAIN ideas
       THEN /\ resp' = Rsp("submit_change_proposal", "not_found")
            /\ UNCHANGED proposals
       ELSE \/ /\ CollaborationPermitted(i, u, {"editor"})
               /\ proposals' = create_change_proposal(i, u, changes)
               /\ resp' = Rsp("submit_change_proposal", "ok")
            \/ /\ CollaborationRefused(i, u, {"editor"})
               /\ resp' = Rsp("submit_change_proposal", "forbidden")
               /\ UNCHANGED proposals
    /\ UNCHANGED <<ideas, collaborators, comments, approving, versions, deep_dive, sessions, llm, platform>>

\* crud.update_change_proposal_status
update_change_proposal_status(p, status) == [proposals EXCEPT ![p].status = status]

\* POST /collaboration/proposals/{proposal_id}/approve, up to the first db.commit()
approve_change_proposal(u, p) ==
    /\ IF p \notin DOMAIN proposals
       THEN /\ resp' = Rsp("approve_change_proposal", "not_found")
            /\ UNCHANGED <<ideas, approving>>
       ELSE LET i == proposals[p].idea_id
                chk == OwnershipCheck(i, u) IN
            IF chk # "ok"
            THEN /\ resp' = Rsp("approve_change_proposal", chk)
                 /\ UNCHANGED <<ideas, approving>>
            ELSE /\ ideas' = [ideas EXCEPT ![i] = ApplyChanges(@, proposals[p].changes)]
                 /\ approving' = approving \cup {p}
                 /\ resp' = Rsp("approve_change_proposal", "committed_idea")
    /\ UNCHANGED <<collaborators, proposals, comments, versions, deep_dive, sessions, llm, platform>>

\* the same request, from the first commit to its return:
\* crud.update_change_proposal_status(db, proposal_id, "approved")
approve_change_proposal_status(p) ==
    /\ p \in approving
    /\ proposals' = update_change_proposal_status(p, "approved")
    /\ approving' = approving \ {p}
    /\ resp' = Rsp("approve_change_proposal", "ok")
    /\ UNCHANGED <<ideas, collaborators, comments, versions, deep_dive, sessions, llm, platform>>

\* POST /collaboration/proposals/{proposal_id}/reject
reject_change_proposal(u, p) ==
    /\ IF p \notin DOMAIN proposals
       THEN /\ resp' = Rsp("reject_change_proposal", "not_found")
            /\ UNCHANGED proposals
       ELSE LET chk == OwnershipCheck(proposals[p].idea_id, u) IN
            IF chk # "ok"
            THEN /\ resp' = Rsp("reject_change_proposal", chk)
                 /\ UNCHANGED proposals
            ELSE /\ proposals' = update_change_proposal_status(p, "rejected")
                 /\ resp' = Rsp("reject_change_proposal", "ok")
    /\ UNCHANGED <<ideas, collaborators, comments, approving, versions, deep_dive, sessions, llm, platform>>

-----------------------------------------------------------------------------
(* Comments *)

\* crud.create_comment; parent_comment_id is a foreign key to comments.id
create_comment(i, author, parent) ==
    comments @@ (FreeId(CommentOrder, DOMAIN comments) :>
        [idea_id |-> i, user_id |-> author, parent_comment_id |-> parent])

ParentExists_Any(parent) == TRUE

\* the foreign key comments.parent_comment_id -> comments.id, nullable
ParentExists(parent) == parent = None \/ parent \in DOMAIN comments

\* POST /collaboration/ideas/{idea_id}/comments
add_comment_to_idea(u, i, parent) ==
    /\ HasFreeId(CommentOrder, DOMAIN comments)
    /\ IF i \notin DOMAIN ideas
       THEN /\ resp' = Rsp("add_comment_to_idea", "not_found")
            /\ UNCHANGED comments
       ELSE \/ /\ CollaborationPermitted(i, u, {"editor", "viewer"})
               /\ IF ParentExists(parent)
                  THEN /\ comments' = create_comment(i, u, parent)
                       /\ resp' = Rsp("add_comment_to_idea", "ok")
                  ELSE /\ resp' = Rsp("add_comment_to_idea", "error")
                       /\ UNCHANGED comments
            \/ /\ CollaborationRefused(i, u, {"editor", "viewer"})
               /\ resp' = Rsp("add_comment_to_idea", "forbidden")
               /\ UNCHANGED comments
    /\ UNCHANGED <<ideas, collaborators, proposals, approving, versions, deep_dive, sessions, llm, platform>>

-----------------------------------------------------------------------------
(* Deep-dive versions *)

\* upper bound on the rows of deep_dive_versions
MaxVersions == 3

\* upper bound on the rows ever inserted into deep_dive_versions
MaxVersionLog == 4

\* an id that names no idea
MissingIdea == "i0"

\* the fields mapping a manual edit sends
FieldInputs == { [f \in {"title"} |-> "A"], [f \in {"title"} |-> "B"] }

\* parsed_fields of an LLM rerun: deep_dive_result.get('deep_dive', {})
RerunFields == [f \in {"sections"} |-> "deep dive"]

VersionsOf(i) == SelectSeq(versions, LAMBDA v : v.idea_id = i)

VersionNumbersOf(i) == { versions[k].version_number : k \in { j \in DOMAIN versions : versions[j].idea_id = i } }

SetMax(S) == CHOOSE m \in S : \A x \in S : x <= m

NextVersionNumber_Count(i) == Len(versions) + 1

\* one greater than the idea's current maximum, starting at 1
NextVersionNumber(i) ==
    IF VersionNumbersOf(i) = {} THEN 1 ELSE SetMax(VersionNumbersOf(i)) + 1

\* crud.create_deep_dive_version: appends a row, leaves the idea alone
create_deep_dive_version(i, fields) ==
    Append(versions, [idea_id |-> i, version_number |-> NextVersionNumber(i), fields |-> fields])

\* POST /ideas/{idea_id}/deepdive_versions; idea_id is a foreign key to ideas.id
create_deep_dive_version_api(u, i, fields, rerun_llm) ==
    /\ Len(versions) < MaxVersions
    /\ Len(version_log) < MaxVersionLog
    /\ IF i \notin DOMAIN ideas
       THEN /\ resp' = Rsp("create_deep_dive_version_api", "error")
            /\ UNCHANGED <<versions, version_log>>
       ELSE /\ versions' = create_deep_dive_version(i, IF rerun_llm THEN RerunFields ELSE fields)
            /\ version_log' = Append(version_log, versions'[Len(versions')])
            /\ resp' = Rsp("create_deep_dive_version_api", "ok")
    /\ UNCHANGED <<ideas, collaborators, proposals, comments, approving, deep_dive, sessions,
                   llm, advanced, accounts>>

\* crud.get_deep_dive_version: the positions of the rows of (idea, version_number)
get_deep_dive_version(i, n) ==
    { k \in DOMAIN versions : versions[k].idea_id = i /\ versions[k].version_number = n }

\* crud.restore_deep_dive_version found both the idea and the version
RestoreFound(i, n) == i \in DOMAIN ideas /\ get_deep_dive_version(i, n) # {}

\* crud.restore_deep_dive_version: the idea with the stored fields written over it
restore_deep_dive_version(i, n) ==
    LET k == CHOOSE k \in get_deep_dive_version(i, n) : TRUE IN
    [ideas EXCEPT ![i] = ApplyChanges(@, versions[k].fields)]

NotFoundUnless_Never(found) == "ok"

\* if not idea: raise HTTPException(404)
NotFoundUnless(found) == IF found THEN "ok" ELSE "not_found"

\* POST /ideas/{idea_id}/deepdive_versions/{version_number}/restore
restore_deep_dive_version_api(i, n) ==
    /\ resp' = Rsp("restore_deep_dive_version_api", NotFoundUnless(RestoreFound(i, n)))
    /\ IF RestoreFound(i, n)
       THEN ideas' = restore_deep_dive_version(i, n)
       ELSE UNCHANGED ideas
    /\ UNCHANGED <<collaborators, proposals, comments, approving, versions,
                   deep_dive, sessions, llm, platform>>

RemoveAt(seq, k) == [j \in 1..(Len(seq) - 1) |-> IF j < k THEN seq[j] ELSE seq[j + 1]]

\* DELETE /ideas/{idea_id}/deepdive_versions/{version_number}
delete_deep_dive_version_api(i, n) ==
    /\ resp' = Rsp("delete_deep_dive_version_api", NotFoundUnless(get_deep_dive_version(i, n) # {}))
    /\ IF get_deep_dive_version(i, n) # {}
       THEN \E k \in get_deep_dive_version(i, n) : versions' = RemoveAt(versions, k)
       ELSE UNCHANGED versions
    /\ UNCHANGED <<ideas, collaborators, proposals, comments, approving, deep_dive, sessions, llm, platform>>

-----------------------------------------------------------------------------
(* The Groq client: call_groq *)

\* max_retries = 3
max_retries == 3

\* what one HTTP attempt can end in
Outcomes == {"success", "timeout", "request_error", "rate_limit",
             "rate_limit_bad_header", "other_error"}

Retryable_All(outcome) == outcome # "success"

\* except (httpx.ReadTimeout, httpx.ConnectTimeout, httpx.RequestError)
Retryable(outcome) == outcome \in {"timeout", "request_error"}

\* len(GROQ_API_KEYS): the GROQ_API_KEY_N variables of the environment
NumKeys == 2

KeyIndex_First(counter) == 0

\* GROQ_API_KEYS[_groq_key_counter % len(GROQ_API_KEYS)]
KeyIndex(counter) == counter % NumKeys

\* entry of call_groq: for attempt in range(1, max_retries + 1)
call_groq(c) ==
    /\ calls[c].pc = "idle"
    /\ calls' = [calls EXCEPT ![c] = [@ EXCEPT !.pc = "acquire", !.attempt = 1]]
    /\ UNCHANGED <<ideas, collaborators, proposals, comments, approving, versions, resp,
                   deep_dive, sessions, groq_keys, parsers, platform>>

\* async with _groq_key_lock: groq_key = _get_next_groq_key()
get_next_groq_key(c) ==
    /\ calls[c].pc = "acquire"
    /\ key_log' = Append(key_log, KeyIndex(groq_key_counter))
    /\ groq_key_counter' = groq_key_counter + 1
    /\ calls' = [calls EXCEPT ![c].pc = "post"]
    /\ UNCHANGED <<ideas, collaborators, proposals, comments, approving, versions, resp,
                   deep_dive, sessions, parsers, platform>>

\* where the attempt's outcome sends the invocation
AfterAttempt(attempt, outcome) ==
    IF outcome = "success" THEN "returned"
    ELSE IF outcome = "rate_limit" THEN "sleep"
    ELSE IF Retryable(outcome) /\ attempt < max_retries THEN "sleep"
    ELSE "raised"

\* await client.post(...) and the handling of its outcome
post(c, outcome) ==
    /\ calls[c].pc = "post"
    /\ calls' = [calls EXCEPT ![c] =
                   [pc |-> AfterAttempt(@.attempt, outcome), attempt |-> @.attempt,
                    posts |-> @.posts + 1, last |-> outcome]]
    /\ UNCHANGED <<ideas, collaborators, proposals, comments, approving, versions, resp,
                   deep_dive, sessions, groq_keys, parsers, platform>>

\* after asyncio.sleep: the next iteration of the loop, or its end
\* (the function then ends without a return statement)
next_attempt(c) ==
    /\ calls[c].pc = "sleep"
    /\ calls' = [calls EXCEPT ![c] =
                   IF @.attempt < max_retries
                   THEN [@ EXCEPT !.pc = "acquire", !.attempt = @ + 1]
                   ELSE [@ EXCEPT !.pc = "returned_none"]]
    /\ UNCHANGED <<ideas, collaborators, proposals, comments, approving, versions, resp,
                   deep_dive, sessions, groq_keys, parsers, platform>>

-----------------------------------------------------------------------------
(* Requests interleaved at their read and commit points *)

\* the attributes whose assigned value differs from the loaded one: those the
\* session's unit of work puts in its UPDATE
Dirty(loaded, assigned) ==
    LET fields == { f \in DOMAIN assigned \cap DOMAIN loaded : assigned[f] # loaded[f] } IN
    [f \in fields |-> assigned[f]]

\* the assignments of update_idea: the fields given, and user_id for a system idea
Assigned(loaded, u, title, status) ==
    LET given == {f \in {"title"} : title # None} \cup {f \in {"status"} : status # None}
                 \cup {f \in {"user_id"} : loaded.user_id = None} IN
    [f \in given |-> IF f = "title" THEN title ELSE IF f = "status" THEN status ELSE u]

Loaded(op, target, i, writes) ==
    [pc |-> "loaded", op |-> op, target |-> target, idea_id |-> i,
     loaded |-> ideas[i], writes |-> writes]

\* PUT /ideas/{idea_id} up to its db.commit(): the query and the assignments
update_idea_load(r, u, i, title, status) ==
    /\ sessions[r].pc = "idle"
    /\ IF i \notin DOMAIN ideas
       THEN /\ resp' = Rsp("update_idea", "not_found")
            /\ UNCHANGED sessions
       ELSE IF ~MayEdit(i, u)
       THEN /\ resp' = Rsp("update_idea", "forbidden")
            /\ UNCHANGED sessions
       ELSE /\ sessions' = [sessions EXCEPT ![r] =
                  Loaded("update_idea", "none", i,
                         Dirty(ideas[i], Assigned(ideas[i], u, title, status)))]
            /\ UNCHANGED resp
    /\ UNCHANGED <<ideas, collaborators, proposals, comments, approving, versions, deep_dive, llm, platform>>

\* approve_change_proposal up to its db.commit(): the queries and the setattr loop
approve_change_proposal_load(r, u, p) ==
    /\ sessions[r].pc = "idle"
    /\ IF p \notin DOMAIN proposals
       THEN /\ resp' = Rsp("approve_change_proposal", "not_found")
            /\ UNCHANGED sessions
       ELSE LET i == proposals[p].idea_id
                chk == OwnershipCheck(i, u) IN
            IF chk # "ok"
            THEN /\ resp' = Rsp("approve_change_proposal", chk)
                 /\ UNCHANGED sessions
            ELSE /\ sessions' = [sessions EXCEPT ![r] =
                       Loaded("approve_change_proposal", p, i,
                              Dirty(ideas[i], proposals[p].changes))]
                 /\ UNCHANGED resp
    /\ UNCHANGED <<ideas, collaborators, proposals, comments, approving, versions, deep_dive, llm, platform>>

Flush_WholeRow(row, loaded, writes) == ApplyChanges(loaded, writes)

\* the UPDATE of a flush: the dirty columns of the row, the others as they are
Flush(row, loaded, writes) == ApplyChanges(row, writes)

\* db.commit() of a request that has loaded and assigned
commit(r) ==
    /\ sessions[r].pc = "loaded"
    /\ ideas' = [ideas EXCEPT ![sessions[r].idea_id] =
                    Flush(@, sessions[r].loaded, sessions[r].writes)]
    /\ sessions' = [sessions EXCEPT ![r].pc = "committed"]
    /\ IF sessions[r].op = "approve_change_proposal"
       THEN /\ approving' = approving \cup {sessions[r].target}
            /\ resp' = Rsp("approve_change_proposal", "committed_idea")
       ELSE /\ UNCHANGED approving
            /\ resp' = Rsp("update_idea", "ok")
    /\ UNCHANGED <<collaborators, proposals, comments, versions, deep_dive, llm, platform>>

-----------------------------------------------------------------------------
(* Deep dives: generate_deep_dive and trigger_deep_dive_api *)

\* the call_groq invocation a deep-dive request makes
DeepDiveCalls == {"g1"}

\* the completions the LLM answers a deep-dive prompt with
LlmResponses ==
    { Response(<<"{...}">>, DictVal(("Product" :> Str(<<"x">>)) @@ ("Timing" :> Str(<<"y">>)))),
      Response(<<"Some prose.">>, NotJson) }

FinishedCall(c) == calls[c].pc \in {"returned", "raised", "returned_none"}

Result(sections, raw) == [deep_dive |-> sections, raw |-> raw]

\* llm.generate_deep_dive around the finished call_groq invocation c, whose
\* outcome the request then consumes:
\* an exception gives the error content; None is handed to the parser as it is
generate_deep_dive(c, response) ==
    IF calls[c].pc = "raised"
    THEN Result(<< Section(Str(<<"Error Generating Analysis">>),
                           Str(<<"An unexpected error occurred">>)) >>, EmptyStr)
    ELSE IF calls[c].pc = "returned_none"
    THEN Result(parse_deep_dive_response(Response(<< >>, NotJson)).sections, NoneVal)
    ELSE Result(parse_deep_dive_response(response).sections, Str(response.text))

\* generate_personalized_deep_dive: the result of generate_deep_dive, or the
\* error section when building the user context raised
generate_personalized_deep_dive(c, response, context_ok) ==
    IF context_ok THEN generate_deep_dive(c, response)
    ELSE Result(<< Section(Str(<<"Error Generating Deep Dive">>),
                           Str(<<"An error occurred">>)) >>, EmptyStr)

\* idea.deep_dive = sections
SetDeepDive(i, sections) ==
    [j \in DOMAIN deep_dive \cup {i} |-> IF j = i THEN sections ELSE deep_dive[j]]

\* the except branch of trigger_deep_dive_api
trigger_error_sections ==
    << Section(Str(<<"Error Generating Deep Dive">>), Str(<<"An error occurred">>)) >>

\* POST /ideas/{idea_id}/deepdive, for a user whose tier has deep_dive;
\* result.get('raw', '')[:500] raises when raw is None
trigger_deep_dive_api(u, i, use_personalization, context_ok, c, response) ==
    /\ IF i \notin DOMAIN ideas
       THEN /\ resp' = Rsp("trigger_deep_dive_api", "not_found")
            /\ UNCHANGED <<ideas, deep_dive, calls>>
       ELSE IF ~MayEdit(i, u)
       THEN /\ resp' = Rsp("trigger_deep_dive_api", "forbidden")
            /\ UNCHANGED <<ideas, deep_dive, calls>>
       ELSE LET called == ~use_personalization \/ context_ok
                result == IF use_personalization
                          THEN generate_personalized_deep_dive(c, response, context_ok)
                          ELSE generate_deep_dive(c, response) IN
            /\ called => FinishedCall(c)
            /\ calls' = IF called THEN [calls EXCEPT ![c].pc = "consumed"] ELSE calls
            /\ IF result.raw.t = "none"
               THEN /\ deep_dive' = SetDeepDive(i, trigger_error_sections)
                    /\ UNCHANGED ideas
               ELSE /\ deep_dive' = SetDeepDive(i, result.deep_dive)
                    /\ ideas' = [ideas EXCEPT ![i].user_id = IF @ = None THEN u ELSE @]
            /\ resp' = Rsp("trigger_deep_dive_api", "ok")
    /\ UNCHANGED <<collaborators, proposals, comments, approving, versions, sessions,
                   groq_keys, parsers, platform>>

-----------------------------------------------------------------------------
(* Generated artifacts: case study, market snapshot, lens insight, investor deck *)

\* upper bound on the LLM generations of the advanced-feature requests
MaxGenerations == 4

\* request.lens_type
LensTypes == {"founder", "investor"}

\* what the existence query of a table filters on; lens_type None for the
\* tables that are queried by idea_id alone
ArtifactKey(kind, i, lens_type) == [kind |-> kind, idea_id |-> i, lens_type |-> lens_type]

ExistingRows_None(key) == 0

\* db.query(Model).filter(...).first(): the number of rows the filter matches
ExistingRows(key) == IF key \in DOMAIN artifacts THEN artifacts[key] ELSE 0

\* db.add(row); db.commit(): one more row under the key, its id a fresh uuid
InsertArtifact(key) ==
    IF key \in DOMAIN artifacts THEN [artifacts EXCEPT ![key] = @ + 1]
    ELSE [k \in DOMAIN artifacts \cup {key} |-> IF k = key THEN 1 ELSE artifacts[k]]

\* the body shared by the four create handlers; stored: the LLM result made
\* a row (otherwise building the row raised and the handler answers 500, as
\* it does for the 404 of a missing idea, which its except clause catches)
create_artifact(op, key, stored) ==
    /\ IF key.idea_id \notin DOMAIN ideas
       THEN /\ resp' = Rsp(op, "error")
            /\ UNCHANGED <<artifacts, generations>>
       ELSE IF ExistingRows(key) > 0
       THEN /\ resp' = Rsp(op, "existing")
            /\ UNCHANGED <<artifacts, generations>>
       ELSE /\ generations < MaxGenerations
            /\ generations' = generations + 1
            /\ IF stored
               THEN /\ artifacts' = InsertArtifact(key)
                    /\ resp' = Rsp(op, "created")
               ELSE /\ resp' = Rsp(op, "error")
                    /\ UNCHANGED artifacts
    /\ UNCHANGED <<ideas, collaborators, proposals, comments, approving, versions, deep_dive,
                   sessions, llm, version_log, accounts>>

\* POST /advanced/case-study
create_case_study(i, stored) ==
    create_artifact("create_case_study", ArtifactKey("case_study", i, None), stored)

\* POST /advanced/market-snapshot
create_market_snapshot(i, stored) ==
    create_artifact("create_market_snapshot", ArtifactKey("market_snapshot", i, None), stored)

\* POST /advanced/lens-insight
create_lens_insight(i, lens_type, stored) ==
    create_artifact("create_lens_insight", ArtifactKey("lens_insight", i, lens_type), stored)

\* POST /advanced/investor-deck
create_investor_deck(i, stored) ==
    create_artifact("create_investor_deck", ArtifactKey("investor_deck", i, None), stored)

-----------------------------------------------------------------------------
(* Specifications *)

\* a store holding one idea of u1 and one of u2, as two create_idea requests leave it
InitOwned ==
    /\ ideas = ("i1" :> NewIdea("u1", "A", "suggested")) @@
               ("i2" :> NewIdea("u2", "A", "suggested"))
    /\ collaborators = {}
    /\ proposals = << >>
    /\ comments = << >>
    /\ approving = {}
    /\ versions = << >>
    /\ deep_dive = << >>
    /\ sessions = [r \in RequestIds |-> NoSession]
    /\ resp = Rsp("none", "none")
    /\ groq_key_counter = 0
    /\ key_log = << >>
    /\ calls = [c \in CallIds |-> IdleCall]
    /\ dd_parse = NoParse
    /\ idea_parse = NoIdeaParse
    /\ lens_parse = NoLensParse
    /\ InitPlatform

ProposalChanges == { c \in ChangeInputs : c # [f \in {"title"} |-> ""] }

\* the proposal workflow and the collaborator set
NextProposals ==
    \/ \E u \in Users, i \in IdeaIds, t \in Users, r \in Roles :
          add_collaborator_to_idea(u, i, t, r)
    \/ \E u \in Users, i \in IdeaIds : get_idea_collaborators(u, i)
    \/ \E u \in Users, i \in IdeaIds, t \in Users : remove_collaborator_from_idea(u, i, t)
    \/ \E u \in Users, i \in IdeaIds, c \in ProposalChanges : submit_change_proposal(u, i, c)
    \/ \E u \in Users, p \in ProposalIds : approve_change_proposal(u, p)
    \/ \E p \in ProposalIds : approve_change_proposal_status(p)
    \/ \E u \in Users, p \in ProposalIds : reject_change_proposal(u, p)

SpecProposals == InitOwned /\ [][NextProposals]_vars

AuthChanges == { [f \in {"title"} |-> "B"] }

\* (title, status) bodies of update_idea
AuthEdits == { <<"B", None>>, <<None, "closed">> }

\* parent ids of the comment requests: none, and one that names no comment
AuthParents == {None, "c1"}

\* the requests a participant of an idea may make
NextAuth ==
    \/ \E u \in Users, i \in IdeaIds, t \in Users, r \in Roles :
          add_collaborator_to_idea(u, i, t, r)
    \/ \E u \in Users, i \in IdeaIds, c \in AuthChanges : submit_change_proposal(u, i, c)
    \/ \E u \in Users, i \in IdeaIds, c \in AuthParents :
          comments = << >> /\ add_comment_to_idea(u, i, c)
    \/ \E u \in Users, i \in IdeaIds, e \in AuthEdits : update_idea(u, i, e[1], e[2])

SpecAuth == InitOwned /\ [][NextAuth]_vars

\* every request that stores or rewrites an idea's title, from an empty store
NextIdeas ==
    \/ \E u \in Users, t \in TitleInputs : create_idea(u, t, "suggested")
    \/ \E t \in PitchTitles : generate_ideas_for_repos(t)
    \/ \E u \in Users, ts \in {<< >>} \cup { <<t>> : t \in PitchTitles } :
          generate_ideas(u, FALSE, ts)
    \/ \E u \in Users, t \in TitleInputs : validate_user_idea(u, t)
    \/ \E u \in Users, i \in IdeaIds, t \in TitleInputs \cup {None} : update_idea(u, i, t, None)
    \/ \E u \in Users, i \in IdeaIds : update_status_api(u, i, "closed")
    \/ \E u \in Users, i \in IdeaIds, c \in ChangeInputs : submit_change_proposal(u, i, c)
    \/ \E u \in Users, p \in ProposalIds : approve_change_proposal(u, p)
    \/ \E p \in ProposalIds : approve_change_proposal_status(p)

SpecIdeas == Init /\ [][NextIdeas]_vars

\* version history under sequential requests, without deletions
NextVersions ==
    \/ \E u \in Users, i \in IdeaIds \cup {MissingIdea}, f \in FieldInputs, r \in BOOLEAN :
          create_deep_dive_version_api(u, i, f, r)
    \/ \E i \in IdeaIds \cup {MissingIdea}, n \in 1..MaxVersions :
          restore_deep_dive_version_api(i, n)

SpecVersions == InitOwned /\ [][NextVersions]_vars

\* version history under sequential requests, deletions among them
NextVersionsDelete ==
    \/ \E u \in {"u1"}, i \in IdeaIds, f \in {[t \in {"title"} |-> "B"]}, r \in BOOLEAN :
          create_deep_dive_version_api(u, i, f, r)
    \/ \E i \in IdeaIds, n \in 1..MaxVersions : restore_deep_dive_version_api(i, n)
    \/ \E i \in IdeaIds \cup {MissingIdea}, n \in 1..MaxVersions :
          delete_deep_dive_version_api(i, n)

SpecVersionsDelete == InitOwned /\ [][NextVersionsDelete]_vars


\* call_groq invocations interleaved at their suspension points
NextGroq ==
    \/ \E c \in CallIds : call_groq(c)
    \/ \E c \in CallIds : get_next_groq_key(c)
    \/ \E c \in CallIds, o \in Outcomes : post(c, o)
    \/ \E c \in CallIds : next_attempt(c)

SpecGroq == Init /\ [][NextGroq]_vars

\* a store holding one idea of u1 and one system idea
InitCatalog ==
    /\ ideas = ("i1" :> NewIdea("u1", "A", "suggested")) @@
               ("i2" :> NewIdea(None, "A", "suggested"))
    /\ collaborators = {}
    /\ proposals = << >>
    /\ comments = << >>
    /\ approving = {}
    /\ versions = << >>
    /\ deep_dive = << >>
    /\ sessions = [r \in RequestIds |-> NoSession]
    /\ resp = Rsp("none", "none")
    /\ groq_key_counter = 0
    /\ key_log = << >>
    /\ calls = [c \in CallIds |-> IdleCall]
    /\ dd_parse = NoParse
    /\ idea_parse = NoIdeaParse
    /\ lens_parse = NoLensParse
    /\ InitPlatform

\* deep-dive requests, each around one call_groq invocation
NextDeepDive ==
    \/ \E c \in DeepDiveCalls : call_groq(c)
    \/ \E c \in DeepDiveCalls : get_next_groq_key(c)
    \/ \E c \in DeepDiveCalls, o \in Outcomes : post(c, o)
    \/ \E c \in DeepDiveCalls : next_attempt(c)
    \/ \E u \in Users, i \in IdeaIds \cup {MissingIdea}, p \in BOOLEAN, ok \in BOOLEAN,
          c \in DeepDiveCalls, r \in LlmResponses :
          trigger_deep_dive_api(u, i, p, ok, c, r)

SpecDeepDive == InitCatalog /\ [][NextDeepDive]_vars

\* a store in which editor u2 has proposed a change of u1's idea
InitProposed ==
    /\ ideas = ("i1" :> NewIdea("u1", "A", "suggested")) @@
               ("i2" :> NewIdea("u2", "A", "suggested"))
    /\ collaborators = {[idea_id |-> "i1", user_id |-> "u2", role |-> "editor"]}
    /\ proposals \in { "p1" :> [idea_id |-> "i1", proposer_id |-> "u2", changes |-> c,
                                status |-> "pending"] : c \in ChangeInputs }
    /\ comments = << >>
    /\ approving = {}
    /\ versions = << >>
    /\ deep_dive = << >>
    /\ sessions = [r \in RequestIds |-> NoSession]
    /\ resp = Rsp("none", "none")
    /\ groq_key_counter = 0
    /\ key_log = << >>
    /\ calls = [c \in CallIds |-> IdleCall]
    /\ dd_parse = NoParse
    /\ idea_parse = NoIdeaParse
    /\ lens_parse = NoLensParse
    /\ InitPlatform

\* (title, status) bodies of concurrent update_idea requests
ConcurrentEdits == { <<"B", None>>, <<None, "closed">>, <<"A", "closed">> }

\* two requests on the store, each a read step and a commit step
NextConcurrent ==
    \/ \E r \in RequestIds, u \in Users, i \in IdeaIds \cup {MissingIdea}, e \in ConcurrentEdits :
          update_idea_load(r, u, i, e[1], e[2])
    \/ \E r \in RequestIds, u \in Users, p \in ProposalIds : approve_change_proposal_load(r, u, p)
    \/ \E r \in RequestIds : commit(r)
    \/ \E p \in ProposalIds : approve_change_proposal_status(p)

SpecConcurrent == InitProposed /\ [][NextConcurrent]_vars

\* changes mappings of proposals, one of them naming the owner column
OwnerChanges == { [f \in {"title"} |-> "B"], [f \in {"user_id"} |-> "u2"] }

\* every request that writes to an owned idea, one request after another
NextOwnership ==
    \/ \E u \in Users, i \in IdeaIds, t \in Users : add_collaborator_to_idea(u, i, t, "editor")
    \/ \E u \in Users, i \in IdeaIds, c \in OwnerChanges : submit_change_proposal(u, i, c)
    \/ \E u \in Users, p \in ProposalIds : approve_change_proposal(u, p)
    \/ \E p \in ProposalIds : approve_change_proposal_status(p)
    \/ \E u \in Users, p \in ProposalIds : reject_change_proposal(u, p)
    \/ \E u \in Users, i \in IdeaIds : update_idea(u, i, "B", None)
    \/ \E c \in DeepDiveCalls : call_groq(c)
    \/ \E c \in DeepDiveCalls : get_next_groq_key(c)
    \/ \E c \in DeepDiveCalls, o \in {"success", "other_error"} : post(c, o)
    \/ \E u \in Users, i \in IdeaIds, c \in DeepDiveCalls, r \in LlmResponses :
          trigger_deep_dive_api(u, i, FALSE, TRUE, c, r)

SpecOwnership == InitOwned /\ [][NextOwnership]_vars

\* comments and replies on the ideas of u1 and u2, by the owners and a viewer
NextComments ==
    \/ \E i \in IdeaIds : add_collaborator_to_idea(ideas[i].user_id, i, "u3", "viewer")
    \/ \E u \in Users, i \in IdeaIds, c \in CommentIds \cup {None} : add_comment_to_idea(u, i, c)

SpecComments == InitOwned /\ [][NextComments]_vars

\* create requests of the advanced features, one after another
NextArtifacts ==
    \/ \E i \in IdeaIds \cup {MissingIdea}, ok \in BOOLEAN : create_case_study(i, ok)
    \/ \E i \in IdeaIds \cup {MissingIdea}, ok \in BOOLEAN : create_market_snapshot(i, ok)
    \/ \E i \in IdeaIds \cup {MissingIdea}, t \in LensTypes, ok \in BOOLEAN :
          create_lens_insight(i, t, ok)
    \/ \E i \in IdeaIds \cup {MissingIdea}, ok \in BOOLEAN : create_investor_deck(i, ok)

SpecArtifacts == InitOwned /\ [][NextArtifacts]_vars

\* the users who ask for a system idea
Adopters == {"u2", "u3"}

\* edits and deep dives of a system idea, the edits interleaved at their
\* read and commit points
NextAdoption ==
    \/ \E r \in RequestIds, u \in Adopters, i \in IdeaIds :
          update_idea_load(r, u, i, "B", None)
    \/ \E r \in RequestIds : commit(r)
    \/ \E c \in DeepDiveCalls : call_groq(c)
    \/ \E c \in DeepDiveCalls : get_next_groq_key(c)
    \/ \E c \in DeepDiveCalls, o \in {"success", "rate_limit", "other_error"} : post(c, o)
    \/ \E c \in DeepDiveCalls : next_attempt(c)
    \/ \E u \in Adopters, i \in IdeaIds, p \in BOOLEAN, c \in DeepDiveCalls, r \in LlmResponses :
          trigger_deep_dive_api(u, i, p, TRUE, c, r)

SpecAdoption == InitCatalog /\ [][NextAdoption]_vars

\* parse_idea_response applied to every response of the model
NextIdeaParse == \E r \in IdeaResponses : parse_ideas(r)

SpecIdeaParse == Init /\ [][NextIdeaParse]_vars

\* parse_lens_insight_response applied to every response of the model
NextLensParse == \E r \in LensResponses : parse_lens_insight(r)

SpecLensParse == Init /\ [][NextLensParse]_vars

\* parse_deep_dive_response applied to every response of the model
NextDeepDiveParse == \E r \in DeepDiveResponses : parse_deep_dive(r)

SpecDeepDiveParse == Init /\ [][NextDeepDiveParse]_vars

-----------------------------------------------------------------------------
(* Properties of the proposal workflow *)

Forbidden(op) == resp' = Rsp(op, "forbidden")

\* the idea's fields carry the values the proposal asks for
ChangesApplied(p) ==
    LET i == proposals[p].idea_id IN
    \A f \in DOMAIN proposals[p].changes : ideas[i][f] = proposals[p].changes[f]

\* C1: in every committed state, the idea reflects a proposal's changes
\* if and only if the proposal's status is approved.
C1_ApprovalAtomic ==
    \A p \in DOMAIN proposals :
        ChangesApplied(p) <=> proposals[p].status = "approved"

Terminal(p) == proposals[p].status \in {"approved", "rejected"}

\* C2: once a proposal is approved or rejected, no later approve or reject
\* request changes its status or applies its changes to the idea again.
C2_TerminalOnceReviewed ==
    [][\A p \in DOMAIN proposals :
          (Terminal(p) /\ p \notin approving) =>
              /\ proposals'[p].status = proposals[p].status
              /\ p \notin approving'
              /\ ideas'[proposals[p].idea_id] = ideas[proposals[p].idea_id]]_vars

NotOwner(u, i) == ideas[i].user_id # u

\* the step ends forbidden and changes no table
Refused(op) ==
    /\ Forbidden(op)
    /\ UNCHANGED <<ideas, collaborators, proposals, comments, approving, versions>>

\* C4: approve, reject, and add/list/remove collaborator by a caller who is
\* not the owner of the idea concerned end forbidden and change neither the
\* idea, the proposal nor the collaborator set.
C4_OwnerOnly ==
    [][/\ resp'.op = "approve_change_proposal" =>
            \/ Refused("approve_change_proposal")
            \/ ~\E u \in Users, p \in DOMAIN proposals :
                  /\ proposals[p].idea_id \in DOMAIN ideas
                  /\ NotOwner(u, proposals[p].idea_id)
                  /\ approve_change_proposal(u, p)
       /\ resp'.op = "reject_change_proposal" =>
            \/ Refused("reject_change_proposal")
            \/ ~\E u \in Users, p \in DOMAIN proposals :
                  /\ proposals[p].idea_id \in DOMAIN ideas
                  /\ NotOwner(u, proposals[p].idea_id)
                  /\ reject_change_proposal(u, p)
       /\ resp'.op = "add_collaborator_to_idea" =>
            \/ Refused("add_collaborator_to_idea")
            \/ ~\E u \in Users, i \in DOMAIN ideas, t \in Users, r \in Roles :
                  NotOwner(u, i) /\ add_collaborator_to_idea(u, i, t, r)
       /\ resp'.op = "get_idea_collaborators" =>
            \/ Refused("get_idea_collaborators")
            \/ ~\E u \in Users, i \in DOMAIN ideas :
                  NotOwner(u, i) /\ get_idea_collaborators(u, i)
       /\ resp'.op = "remove_collaborator_from_idea" =>
            \/ Refused("remove_collaborator_from_idea")
            \/ ~\E u \in Users, i \in DOMAIN ideas, t \in Users :
                  NotOwner(u, i) /\ remove_collaborator_from_idea(u, i, t)]_vars

\* an editor who proposed the change was refused its approval
C4_Witness ==
    /\ resp = Rsp("approve_change_proposal", "forbidden")
    /\ \E p \in DOMAIN proposals :
          /\ proposals[p].status = "pending"
          /\ NotOwner(proposals[p].proposer_id, proposals[p].idea_id)
          /\ ~ChangesApplied(p)

\* C6: submitting creates a pending proposal, and neither submitting nor
\* rejecting changes the idea: of the proposal requests only approval does.
C6_SubmitRejectFrame ==
    [][/\ resp'.op = "submit_change_proposal" =>
            \A u \in Users, i \in IdeaIds, c \in ProposalChanges :
                submit_change_proposal(u, i, c) =>
                    /\ ideas' = ideas
                    /\ \A p \in DOMAIN proposals' \ DOMAIN proposals :
                          proposals'[p].status = "pending"
       /\ resp'.op = "reject_change_proposal" =>
            \A u \in Users, p \in ProposalIds :
                reject_change_proposal(u, p) => ideas' = ideas
       /\ ideas' # ideas => resp'.op = "approve_change_proposal"]_vars

\* a proposal was submitted and then rejected, the idea as it was
C6_Witness ==
    /\ resp = Rsp("reject_change_proposal", "ok")
    /\ \E p \in DOMAIN proposals :
          /\ proposals[p].status = "rejected"
          /\ ~ChangesApplied(p)

-----------------------------------------------------------------------------
(* Properties of authorization *)

\* no collaborator row of the user on the idea carries one of the roles
NoQualifyingRole(u, i, roles) ==
    \A c \in collaborators : (c.idea_id = i /\ c.user_id = u) => c.role \notin roles

\* C3: on an owned idea, a caller who is not the owner and holds no
\* qualifying role is refused (forbidden) by submit_change_proposal,
\* add_comment_to_idea and update_idea, and nothing is created or changed.
C3_FailClosed ==
    [][/\ resp'.op = "submit_change_proposal" =>
            \/ Refused("submit_change_proposal")
            \/ ~\E u \in Users, i \in DOMAIN ideas, c \in AuthChanges :
                  /\ ideas[i].user_id # None
                  /\ NotOwner(u, i)
                  /\ NoQualifyingRole(u, i, {"editor"})
                  /\ submit_change_proposal(u, i, c)
       /\ resp'.op = "add_comment_to_idea" =>
            \/ Refused("add_comment_to_idea")
            \/ ~\E u \in Users, i \in DOMAIN ideas, c \in AuthParents :
                  /\ ideas[i].user_id # None
                  /\ NotOwner(u, i)
                  /\ NoQualifyingRole(u, i, {"editor", "viewer"})
                  /\ add_comment_to_idea(u, i, c)
       /\ resp'.op = "update_idea" =>
            \/ Refused("update_idea")
            \/ ~\E u \in Users, i \in DOMAIN ideas, e \in AuthEdits :
                  /\ ideas[i].user_id # None
                  /\ NotOwner(u, i)
                  /\ update_idea(u, i, e[1], e[2])]_vars

\* a viewer of an idea was refused a proposal
C3_Witness ==
    /\ resp = Rsp("submit_change_proposal", "forbidden")
    /\ proposals = << >>
    /\ \E c \in collaborators : c.role = "viewer" /\ NoQualifyingRole(c.user_id, c.idea_id, {"editor"})

\* C5: through update_status_api the status of an owned idea changes only
\* for its owner; any other caller is refused and the status stays.
C5_StatusOwnerOnly ==
    [][\A u \in Users, i \in DOMAIN ideas :
        (ideas[i].user_id # None /\ NotOwner(u, i) /\ update_status_api(u, i, "closed")) =>
            /\ Forbidden("update_status_api")
            /\ ideas'[i].status = ideas[i].status]_vars

-----------------------------------------------------------------------------
(* Properties of the stored ideas *)

\* C9: every stored idea has a non-empty title.
C9_TitleNeverEmpty == \A i \in DOMAIN ideas : ideas[i].title # ""

-----------------------------------------------------------------------------
(* Properties of the version history *)

\* C7: without deletions, the version numbers of one idea are 1, 2, 3, ...
\* in creation order (strictly increasing, no gaps, no repeats), for manual
\* and rerun versions alike and whatever versions other ideas have.
C7_VersionNumbersDense ==
    \A i \in IdeaIds :
        \A k \in 1..Len(VersionsOf(i)) : VersionsOf(i)[k].version_number = k

\* two versions of one idea, one of them a rerun, after a version of another idea
C7_Witness ==
    /\ Len(versions) = 3
    /\ versions[1].idea_id # versions[2].idea_id
    /\ versions[3].idea_id = versions[2].idea_id
    /\ versions[3].fields = RerunFields
    /\ versions[3].version_number = 2

\* C8: restoring an existing version writes every live field named in its
\* stored mapping onto the idea and succeeds; when the idea or the version
\* is absent the request ends not-found and no idea changes.
C8_RestoreOrNotFound ==
    [][resp'.op = "restore_deep_dive_version_api" =>
        \A i \in IdeaIds \cup {MissingIdea}, n \in 1..MaxVersions :
            restore_deep_dive_version_api(i, n) =>
                IF i \in DOMAIN ideas /\ \E k \in DOMAIN versions :
                        versions[k].idea_id = i /\ versions[k].version_number = n
                THEN /\ resp'.outcome = "ok"
                     /\ \E k \in DOMAIN versions :
                          /\ versions[k].idea_id = i /\ versions[k].version_number = n
                          /\ \A f \in DOMAIN versions[k].fields \cap DOMAIN ideas[i] :
                                ideas'[i][f] = versions[k].fields[f]
                     /\ \A j \in DOMAIN ideas \ {i} : ideas'[j] = ideas[j]
                ELSE /\ resp'.outcome = "not_found"
                     /\ ideas' = ideas]_vars

\* an older version was restored over a newer title
C8_Witness ==
    /\ resp = Rsp("restore_deep_dive_version_api", "ok")
    /\ \E k \in DOMAIN versions :
          /\ k < Len(versions)
          /\ versions[k].idea_id = versions[Len(versions)].idea_id
          /\ "title" \in DOMAIN versions[k].fields
          /\ "title" \in DOMAIN versions[Len(versions)].fields
          /\ versions[k].fields.title # versions[Len(versions)].fields.title
          /\ ideas[versions[k].idea_id].title = versions[k].fields.title
          /\ ideas[versions[k].idea_id].title # "A"

\* C22: across create, restore and delete requests, every version created
\* for an idea has a number greater than that of every version ever created
\* for it before; a number freed by a deletion is not handed out again.
C22_NumbersNeverReused ==
    \A j, k \in DOMAIN version_log :
        (j < k /\ version_log[j].idea_id = version_log[k].idea_id) =>
            version_log[j].version_number < version_log[k].version_number

-----------------------------------------------------------------------------
(* Properties of call_groq *)

Transient == {"timeout", "request_error", "rate_limit"}

\* C10: an invocation makes at most max_retries HTTP attempts; an attempt is
\* made only first or after a transient outcome; it stops at the first
\* success; a non-transient error ends it at once by raising.
C10_BoundedRetry ==
    [][\A c \in CallIds :
        /\ calls'[c].posts <= 3
        /\ calls'[c].posts # calls[c].posts =>
              /\ calls'[c].posts = calls[c].posts + 1
              /\ calls[c].last \in Transient \cup {"none"}
        /\ calls'[c].last = "success" => calls'[c].pc = "returned"
        /\ calls'[c].last \notin Transient \cup {"success", "none"} =>
              calls'[c].pc = "raised"
        /\ calls[c].pc \in {"returned", "raised", "returned_none"} => calls'[c] = calls[c]]_vars

\* a third attempt succeeded after two transient failures
C10_Witness ==
    \E c \in CallIds :
        /\ calls[c].posts = 3
        /\ calls[c].last = "success"
        /\ calls[c].pc = "returned"

-----------------------------------------------------------------------------
(* Properties of parse_deep_dive_response *)

CanonicalTitles ==
    <<"Product", "Timing / Why Now", "Market Opportunity",
      "Strategic Moat / IP / Differentiator", "Business & Funding Snapshot",
      "Signal Score", "Go / No-Go", "Summary">>

CanonicalKeys ==
    <<"Product", "Timing", "Market", "Moat", "Funding", "Signal Score", "GoNoGo", "Summary">>

LegacyShape(json) ==
    /\ json.t = "dict"
    /\ "sections" \in DOMAIN json.members
    /\ json.members["sections"].t = "list"

\* C15: a JSON object with a top-level sections array yields exactly the
\* sections of that array, titles and contents preserved in source order;
\* no other tier's result takes their place.
C15_LegacyShapeWins ==
    (dd_parse.called /\ LegacyShape(dd_parse.response.json)) =>
        LET elems == dd_parse.response.json.members["sections"].items IN
        /\ Len(dd_parse.result.sections) = Len(elems)
        /\ \A i \in 1..Len(elems) :
              /\ (elems[i].t = "dict" /\ "title" \in DOMAIN elems[i].members) =>
                    dd_parse.result.sections[i].title = elems[i].members["title"]
              /\ (elems[i].t = "dict" /\ "content" \in DOMAIN elems[i].members) =>
                    dd_parse.result.sections[i].content = elems[i].members["content"]

\* C16: a response that parses as a JSON array, empty or not, gives exactly
\* one section, titled "Error Generating Deep Dive", with a message as its
\* content, and no further tier is tried.
C16_ArrayGivesErrorSection ==
    (dd_parse.called /\ dd_parse.response.json.t = "list") =>
        /\ dd_parse.result.tier = "list"
        /\ Len(dd_parse.result.sections) = 1
        /\ dd_parse.result.sections[1].title = Str(<<"Error Generating Deep Dive">>)
        /\ dd_parse.result.sections[1].content.t = "str"
        /\ dd_parse.result.sections[1].content # EmptyStr

\* a non-empty JSON array was parsed
C16_Witness ==
    /\ dd_parse.called
    /\ dd_parse.response.json.t = "list"
    /\ dd_parse.response.json.items # << >>
    /\ Len(dd_parse.result.sections) = 1

\* not JSON, not empty, and no line is a header, a numbered item or a bullet
Unstructured(response) ==
    /\ response.json = NotJson
    /\ response.text # << >>
    /\ response.text # <<"">>
    /\ \A k \in DOMAIN response.text :
          /\ HeaderTitle(response.text[k]) = NoMatch
          /\ NumberedRest(response.text[k]) = NoMatch
          /\ BulletRest(response.text[k]) = NoMatch

\* C17: an unstructured response gives exactly one section titled
\* "Raw Analysis" whose content is the response text, character for character.
C17_RawVerbatim ==
    (dd_parse.called /\ Unstructured(dd_parse.response)) =>
        dd_parse.result.sections =
            << Section(Str(<<"Raw Analysis">>), Str(dd_parse.response.text)) >>

\* C18: every section of every result has a string title and a string content.
C18_SectionsAreStrings ==
    dd_parse.called =>
        \A k \in DOMAIN dd_parse.result.sections :
            /\ dd_parse.result.sections[k].title.t = "str"
            /\ dd_parse.result.sections[k].content.t = "str"

-----------------------------------------------------------------------------
(* Properties of parse_idea_response *)

\* C19: no record with score < 8 or mvp_effort > 4 is in the parsed list,
\* on the JSON-array path as on the free-text path.
C19_QualityFilter ==
    idea_parse.called =>
        \A k \in DOMAIN idea_parse.result :
            /\ "score" \in DOMAIN idea_parse.result[k] => idea_parse.result[k]["score"] >= 8
            /\ "mvp_effort" \in DOMAIN idea_parse.result[k] =>
                  idea_parse.result[k]["mvp_effort"] <= 4

\* C20: every record of the parsed list has a non-empty title, on the
\* JSON-array path as on the free-text path.
C20_NoTitlelessRecord ==
    idea_parse.called =>
        \A k \in DOMAIN idea_parse.result :
            /\ "title" \in DOMAIN idea_parse.result[k]
            /\ idea_parse.result[k]["title"] # ""

-----------------------------------------------------------------------------
(* Properties of interleaved requests *)

\* both requests have committed changes of disjoint, non-empty field sets
\* of one idea
DisjointCommitted(r1, r2) ==
    /\ r1 # r2
    /\ sessions[r1].pc = "committed"
    /\ sessions[r2].pc = "committed"
    /\ sessions[r1].idea_id = sessions[r2].idea_id
    /\ DOMAIN sessions[r1].writes # {}
    /\ DOMAIN sessions[r2].writes # {}
    /\ DOMAIN sessions[r1].writes \cap DOMAIN sessions[r2].writes = {}

\* C13: when two requests that modify disjoint sets of fields of one idea
\* have both committed, in whatever order their reads and commits were
\* interleaved, the idea carries the changes of both.
C13_DisjointUpdatesSurvive ==
    \A r1, r2 \in RequestIds :
        DisjointCommitted(r1, r2) =>
            \A r \in {r1, r2} : \A f \in DOMAIN sessions[r].writes :
                ideas[sessions[r].idea_id][f] = sessions[r].writes[f]

\* an update_idea and an approval that both read the idea before either
\* committed have both committed
C13_Witness ==
    \E r1, r2 \in RequestIds :
        /\ DisjointCommitted(r1, r2)
        /\ sessions[r1].op = "update_idea"
        /\ sessions[r2].op = "approve_change_proposal"
        /\ sessions[r1].loaded = sessions[r2].loaded

-----------------------------------------------------------------------------
(* Properties of trigger_deep_dive_api *)

\* C12: when the LLM call of a deep-dive request has failed for good, on the
\* generic and on the personalized path, the request ends without an error,
\* the idea keeps its pitch fields, and its committed deep_dive has a section
\* titled "Error Generating Deep Dive".
C12_DegradeAndPersist ==
    [][resp'.op = "trigger_deep_dive_api" =>
        \A u \in Users, i \in DOMAIN ideas, p \in BOOLEAN, c \in DeepDiveCalls,
           r \in LlmResponses :
            (/\ calls[c].pc \in {"raised", "returned_none"}
             /\ MayEdit(i, u)
             /\ trigger_deep_dive_api(u, i, p, TRUE, c, r)) =>
                /\ resp'.outcome = "ok"
                /\ i \in DOMAIN ideas'
                /\ ideas'[i].title = ideas[i].title
                /\ ideas'[i].status = ideas[i].status
                /\ i \in DOMAIN deep_dive'
                /\ \E k \in DOMAIN deep_dive'[i] :
                      deep_dive'[i][k].title = Str(<<"Error Generating Deep Dive">>)]_vars

-----------------------------------------------------------------------------
(* Properties of ownership *)

\* C23: a system idea accepts update_idea and trigger_deep_dive_api from
\* any user and becomes that caller's; only the first user to edit or
\* deep-dive it becomes its owner, its owner does not change afterwards,
\* also when two users' requests on the unowned idea interleave.
C23_FirstAdopterOwns ==
    [][/\ resp'.op = "trigger_deep_dive_api" =>
            \A u \in Adopters, i \in DOMAIN ideas, p \in BOOLEAN, c \in DeepDiveCalls,
               r \in LlmResponses :
                (ideas[i].user_id = None /\ trigger_deep_dive_api(u, i, p, TRUE, c, r)) =>
                    /\ resp'.outcome = "ok"
                    /\ ideas'[i].user_id = u
       /\ \A r \in RequestIds, u \in Adopters, i \in DOMAIN ideas :
            (ideas[i].user_id = None /\ update_idea_load(r, u, i, "B", None)) =>
                /\ sessions'[r].pc = "loaded"
                /\ sessions'[r].writes["user_id"] = u
       /\ \A i \in DOMAIN ideas :
            ideas[i].user_id # None => ideas'[i].user_id = ideas[i].user_id]_vars

\* C24: the owner of an owned idea never changes, through update_idea,
\* trigger_deep_dive_api, and the submission, approval and rejection of
\* proposals, whatever fields a proposal's changes name.
C24_OwnerNeverChanges ==
    [][\A i \in DOMAIN ideas :
          ideas[i].user_id # None =>
              (i \in DOMAIN ideas' /\ ideas'[i].user_id = ideas[i].user_id)]_vars

-----------------------------------------------------------------------------
(* Properties of the comments *)

\* the comments reached from c by following parent_comment_id up to n times
RECURSIVE Ancestors(_, _, _)
Ancestors(table, c, n) ==
    IF n = 0 \/ c \notin DOMAIN table \/ table[c].parent_comment_id = None THEN {}
    ELSE {table[c].parent_comment_id} \cup Ancestors(table, table[c].parent_comment_id, n - 1)

\* C25: under add_comment_to_idea requests the parent relation has no
\* cycle, the parent of a new comment is null or a comment that existed
\* before it, and no stored comment is modified or removed.
C25_CommentForest ==
    [][/\ \A c \in DOMAIN comments : c \in DOMAIN comments' /\ comments'[c] = comments[c]
       /\ \A c \in DOMAIN comments' \ DOMAIN comments :
             comments'[c].parent_comment_id \in DOMAIN comments \cup {None}
       /\ \A c \in DOMAIN comments' :
             c \notin Ancestors(comments', c, Cardinality(DOMAIN comments'))]_vars

\* a reply to a reply, by a viewer
C25_Witness ==
    /\ DOMAIN comments = {"c1", "c2", "c3"}
    /\ comments["c2"].parent_comment_id = "c1"
    /\ comments["c3"].parent_comment_id = "c2"
    /\ comments["c3"].user_id = "u3"
    /\ resp = Rsp("add_comment_to_idea", "ok")

-----------------------------------------------------------------------------
(* Properties of the generated artifacts *)

\* the keys of the create requests
ArtifactKeys ==
    { ArtifactKey(k, i, None) : k \in {"case_study", "market_snapshot", "investor_deck"},
                                i \in IdeaIds }
    \cup { ArtifactKey("lens_insight", i, t) : i \in IdeaIds, t \in LensTypes }

-----------------------------------------------------------------------------
(* More properties of call_groq *)

\* C27: with K keys, the i-th key acquisition overall, counted from 0 over
\* all invocations and attempts in lock order, uses key i mod K; the counter
\* grows by exactly one per attempt also when invocations interleave; so
\* any K consecutive acquisitions use every key once.
C27_RoundRobin ==
    /\ groq_key_counter = Len(key_log)
    /\ \A i \in 0..(Len(key_log) - 1) : key_log[i + 1] = i % NumKeys
    /\ \A i \in 1..(Len(key_log) - NumKeys + 1) :
          { key_log[j] : j \in i..(i + NumKeys - 1) } = 0..(NumKeys - 1)
    /\ Len(key_log) =
          Cardinality({ ca \in CallIds \X (1..max_retries) :
                          \/ ca[2] < calls[ca[1]].attempt
                          \/ ca[2] = calls[ca[1]].attempt /\ calls[ca[1]].pc # "acquire" })

\* two invocations took their keys in turn, the second attempt of one
\* after the first attempt of the other
C27_Witness ==
    /\ Len(key_log) >= 2 * NumKeys
    /\ calls["g1"].attempt = 2
    /\ calls["g2"].attempt >= 2
    /\ calls["g1"].pc = "post"
    /\ calls["g2"].pc = "post"


\* C11: every finished call_groq invocation has either returned the
\* completion text or raised an error; none returns without a text.
C11_TextOrError ==
    \A c \in CallIds :
        calls[c].pc \notin {"idle", "acquire", "post", "sleep"} =>
            \/ calls[c].pc = "returned" /\ calls[c].last = "success"
            \/ calls[c].pc = "raised"

-----------------------------------------------------------------------------
(* Properties of parse_lens_insight_response *)

FlattenedKeys == {"opportunities", "risks", "recommendations"}

\* the JSON object the fields of the result were taken from
LensSource(response) ==
    IF response.json.t = "dict" THEN response.json
    ELSE IF response.json.t = "list" THEN response.json.items[1]
    ELSE response.match

\* the result was built from a JSON object
FromObject(parse) == parse.called /\ parse.result.tier \in {"object", "array", "embedded"}

\* C21: on every path that returns the fields of a JSON object, each of
\* opportunities, risks and recommendations that was a list is one string of
\* its items in source order, each after a bullet, joined by newlines; no
\* list is left under these keys.
C21_ListsFlattened ==
    FromObject(lens_parse) =>
        LET source == LensSource(lens_parse.response).members
            result == lens_parse.result.data.members IN
        /\ DOMAIN result = DOMAIN source
        /\ \A key \in DOMAIN source \cap FlattenedKeys :
              /\ result[key].t # "list"
              /\ source[key].t = "list" =>
                    /\ result[key].t = "str"
                    /\ IF source[key].items = << >> THEN result[key] = EmptyStr
                       ELSE /\ Len(result[key].s) = Len(source[key].items)
                            /\ \A k \in 1..Len(source[key].items) :
                                  result[key].s[k] =
                                      BulletPrefix \o PyStr(source[key].items[k]).s[1]

\* an object after a line of prose had its two risks joined
C21_Witness ==
    /\ lens_parse.called
    /\ lens_parse.result.tier = "embedded"
    /\ "risks" \in DOMAIN lens_parse.response.match.members
    /\ lens_parse.response.match.members["risks"] = ListVal(<<Str(<<"a">>), Str(<<"b">>)>>)
    /\ lens_parse.result.data.members["risks"] = Str(<<"(bullet) a", "(bullet) b">>)

-----------------------------------------------------------------------------
(* Tier limit of generate_ideas *)

\* ideas a free-tier user created earlier (POST /ideas/), below the limit
SeedOrder == <<"s1", "s2", "s3", "s4", "s5", "s6", "s7", "s8", "s9">>

SeededIdeas(u, n) == [i \in { SeedOrder[k] : k \in 1..n } |-> NewIdea(u, "A", "closed")]

Batches == {<< >>} \cup { <<t>> : t \in PitchTitles } \cup { <<t, "B">> : t \in PitchTitles }

InitFreeTier ==
    /\ \E n \in 0..Len(SeedOrder) : ideas = SeededIdeas("u1", n)
    /\ collaborators = {}
    /\ proposals = << >>
    /\ comments = << >>
    /\ approving = {}
    /\ versions = << >>
    /\ deep_dive = << >>
    /\ sessions = [r \in RequestIds |-> NoSession]
    /\ resp = Rsp("none", "none")
    /\ groq_key_counter = 0
    /\ key_log = << >>
    /\ calls = [c \in CallIds |-> IdleCall]
    /\ dd_parse = NoParse
    /\ idea_parse = NoIdeaParse
    /\ lens_parse = NoLensParse
    /\ version_log = << >>
    /\ artifacts = << >>
    /\ generations = 0
    /\ users = [u \in Users |-> IF u = "u1" THEN [NoTeamUser EXCEPT !.tier = "free"]
                                ELSE NoTeamUser]
    /\ teams = << >>
    /\ invites = << >>

NextIdeaLimit ==
    \E u \in {"u1", "u2"}, p \in BOOLEAN, ts \in Batches : generate_ideas(u, p, ts)

SpecIdeaLimit == InitFreeTier /\ [][NextIdeaLimit]_vars

\* C28: generate_ideas answers forbidden and stores nothing when the caller
\* already owns max_ideas ideas of their tier, and no sequence of
\* generate_ideas requests leaves a user with more ideas than the max_ideas
\* of their tier.
C28_IdeaLimitHolds ==
    [][ /\ \A u \in Users :
            (/\ UserIdeaCount(u) >= get_tier_config(users[u].tier).max_ideas
             /\ \E p \in BOOLEAN, ts \in Batches : generate_ideas(u, p, ts))
            => (resp'.outcome = "forbidden" /\ ideas' = ideas)
        /\ \A u \in Users :
            UserIdeaCount(u)' <= get_tier_config(users[u].tier).max_ideas ]_vars

-----------------------------------------------------------------------------
(* Teams and invites: app/routers/auth.py *)

TeamOrder == <<"t1", "t2">>
TeamIds == Range(TeamOrder)
InviteOrder == <<"v1", "v2">>
InviteIds == Range(InviteOrder)
AccountTypes == {"solo", "team"}

\* Invite(..., expires_at = utcnow() + 7 days, accepted=False, revoked=False);
\* expired: expires_at < utcnow()
NewInvite(team, inviter) ==
    [team_id |-> team, inviter_id |-> inviter,
     accepted |-> FALSE, revoked |-> FALSE, expired |-> FALSE]

\* for email in team_invites: db.add(Invite(...))
RECURSIVE InsertedInvites(_, _, _)
InsertedInvites(table, rec, n) ==
    IF n = 0 THEN table
    ELSE InsertedInvites(table @@ (FreeId(InviteOrder, DOMAIN table) :> rec), rec, n - 1)

\* POST /auth/onboarding/complete
onboarding_complete(u, account_type, team_invites) ==
    /\ IF account_type = "team"
       THEN /\ HasFreeId(TeamOrder, DOMAIN teams)
            /\ Cardinality(InviteIds \ DOMAIN invites) >= team_invites
            /\ LET team == FreeId(TeamOrder, DOMAIN teams) IN
               /\ teams' = teams @@ (team :> [owner_id |-> u])
               /\ users' = [users EXCEPT ![u].account_type = account_type,
                                         ![u].team_id = team]
               /\ invites' = InsertedInvites(invites, NewInvite(team, u), team_invites)
       ELSE /\ users' = [users EXCEPT ![u].account_type = account_type]
            /\ UNCHANGED <<teams, invites>>
    /\ resp' = Rsp("onboarding_complete", "success")
    /\ UNCHANGED <<ideas, collaborators, proposals, comments, approving, versions,
                   deep_dive, sessions, llm, version_log, advanced>>

\* the clock passes expires_at
invite_expires(v) ==
    /\ v \in DOMAIN invites
    /\ ~invites[v].expired
    /\ invites' = [invites EXCEPT ![v].expired = TRUE]
    /\ resp' = Rsp("invite_expires", "none")
    /\ UNCHANGED <<ideas, collaborators, proposals, comments, approving, versions,
                   deep_dive, sessions, llm, version_log, advanced, users, teams>>

PendingInvite_Any(v) == v \in DOMAIN invites

\* filter(Invite.id == invite_id, Invite.revoked == False, Invite.accepted == False)
PendingInvite(v) ==
    /\ v \in DOMAIN invites
    /\ ~invites[v].revoked
    /\ ~invites[v].accepted

\* POST /auth/invite/accept
accept_invite(u, v) ==
    /\ IF ~PendingInvite(v)
       THEN /\ resp' = Rsp("accept_invite", "not_found")
            /\ UNCHANGED <<users, invites>>
       ELSE IF invites[v].expired
       THEN /\ resp' = Rsp("accept_invite", "bad_request")
            /\ UNCHANGED <<users, invites>>
       ELSE /\ users' = [users EXCEPT ![u].team_id = invites[v].team_id,
                                      ![u].account_type = "team"]
            /\ invites' = [invites EXCEPT ![v].accepted = TRUE]
            /\ resp' = Rsp("accept_invite", "accepted")
    /\ UNCHANGED <<ideas, collaborators, proposals, comments, approving, versions,
                   deep_dive, sessions, llm, version_log, advanced, teams>>

\* if not team or team.owner_id != current_user.id
NotTeamOwner(team, u) == team \notin DOMAIN teams \/ teams[team].owner_id # u

\* POST /auth/invite/revoke
revoke_invite(u, v) ==
    /\ IF ~PendingInvite(v)
       THEN /\ resp' = Rsp("revoke_invite", "not_found")
            /\ UNCHANGED invites
       ELSE IF NotTeamOwner(invites[v].team_id, u)
       THEN /\ resp' = Rsp("revoke_invite", "forbidden")
            /\ UNCHANGED invites
       ELSE /\ invites' = [invites EXCEPT ![v].revoked = TRUE]
            /\ resp' = Rsp("revoke_invite", "revoked")
    /\ UNCHANGED <<ideas, collaborators, proposals, comments, approving, versions,
                   deep_dive, sessions, llm, version_log, advanced, users, teams>>

\* POST /auth/team/transfer_ownership
transfer_team_ownership(u, new_owner_id) ==
    /\ IF users[u].team_id = None
       THEN /\ resp' = Rsp("transfer_team_ownership", "bad_request")
            /\ UNCHANGED teams
       ELSE IF NotTeamOwner(users[u].team_id, u)
       THEN /\ resp' = Rsp("transfer_team_ownership", "forbidden")
            /\ UNCHANGED teams
       ELSE IF users[new_owner_id].team_id # users[u].team_id
       THEN /\ resp' = Rsp("transfer_team_ownership", "not_found")
            /\ UNCHANGED teams
       ELSE /\ teams' = [teams EXCEPT ![users[u].team_id].owner_id = new_owner_id]
            /\ resp' = Rsp("transfer_team_ownership", "ownership_transferred")
    /\ UNCHANGED <<ideas, collaborators, proposals, comments, approving, versions,
                   deep_dive, sessions, llm, version_log, advanced, users, invites>>

NextTeams ==
    \/ \E u \in Users, a \in AccountTypes, n \in 0..1 : onboarding_complete(u, a, n)
    \/ \E v \in InviteIds : invite_expires(v)
    \/ \E u \in Users, v \in InviteIds : accept_invite(u, v)
    \/ \E u \in Users, v \in InviteIds : revoke_invite(u, v)
    \/ \E u, n \in Users : transfer_team_ownership(u, n)

SpecTeams == Init /\ [][NextTeams]_vars

C30_OwnerIsMember ==
    \A t \in DOMAIN teams : users[teams[t].owner_id].team_id = t

====
